---- MODULE Spec2Model ----
(***************************************************************************)
(* A model of audit2rbac's covering-rule generator: Generator.Generate,    *)
(* its helpers (userToSubject, attributesToResourceRule, compactRules,     *)
(* sortRequests) and the RBAC evaluation they call.                        *)
(*                                                                         *)
(* Go strings are TLA+ strings; where the code looks inside a string       *)
(* (strings.Compare, HasPrefix, Split, Join, %q) the model works on the    *)
(* string's bytes, Chars[s].  A nil slice and an empty slice are both <<>>:*)
(* the only reflect.DeepEqual calls that could tell them apart compare     *)
(* fields no code path makes empty and non-nil.                            *)
(***************************************************************************)
EXTENDS Naturals, Integers, Sequences, FiniteSets, TLC

(***************************************************************************)
(* Bounds of the model.                                                    *)
(***************************************************************************)
\* longest attempt list handed to NewGenerator under Spec
MaxLen == 3
\* longest attempt list under SpecNames
MaxLenNames == 4

\* the longest list of attempts under SpecList
MaxLenList == 3

\* the longest list of attempts under SpecRule
MaxLenRule == 2

\* the most audit events a run loads under SpecRun
MaxEvents == 3

\* the longest list of attempts under SpecCompact
MaxLenCompact == 4

\* the longest attempt list under SpecFailure
MaxLenFailure == 3

\* the most sources of a run under SpecPipeline
MaxSources == 2

\* the most documents of a source
MaxDocuments == 1

(***************************************************************************)
(* Strings as bytes.                                                       *)
(***************************************************************************)
Chars ==
   "" :> <<>> @@
   "*" :> <<42>> @@
   "get" :> <<103, 101, 116>> @@
   "list" :> <<108, 105, 115, 116>> @@
   "watch" :> <<119, 97, 116, 99, 104>> @@
   "update" :> <<117, 112, 100, 97, 116, 101>> @@
   "patch" :> <<112, 97, 116, 99, 104>> @@
   "delete" :> <<100, 101, 108, 101, 116, 101>> @@
   "create" :> <<99, 114, 101, 97, 116, 101>> @@
   "pods" :> <<112, 111, 100, 115>> @@
   "configmaps" :> <<99, 111, 110, 102, 105, 103, 109, 97, 112, 115>> @@
   "status" :> <<115, 116, 97, 116, 117, 115>> @@
   "pods/status" :> <<112, 111, 100, 115, 47, 115, 116, 97, 116, 117, 115>> @@
   "v1" :> <<118, 49>> @@
   "p1" :> <<112, 49>> @@
   "p2" :> <<112, 50>> @@
   "ns1" :> <<110, 115, 49>> @@
   "ns2" :> <<110, 115, 50>> @@
   "sa1" :> <<115, 97, 49>> @@
   "/foo" :> <<47, 102, 111, 111>> @@
   "/api" :> <<47, 97, 112, 105>> @@
   "/api/*" :> <<47, 97, 112, 105, 47, 42>> @@
   "/api*" :> <<47, 97, 112, 105, 42>> @@
   "/healthz" :> <<47, 104, 101, 97, 108, 116, 104, 122>> @@
   "bob" :> <<98, 111, 98>> @@
   "system:serviceaccount:ns1:sa1" :> <<115, 121, 115, 116, 101, 109, 58, 115, 101, 114, 118, 105, 99, 101, 97, 99, 99, 111, 117, 110, 116, 58, 110, 115, 49, 58, 115, 97, 49>> @@
   "system:serviceaccount:ns1" :> <<115, 121, 115, 116, 101, 109, 58, 115, 101, 114, 118, 105, 99, 101, 97, 99, 99, 111, 117, 110, 116, 58, 110, 115, 49>> @@
   "system:serviceaccount:" :> <<115, 121, 115, 116, 101, 109, 58, 115, 101, 114, 118, 105, 99, 101, 97, 99, 99, 111, 117, 110, 116, 58>> @@
   "system:authenticated" :> <<115, 121, 115, 116, 101, 109, 58, 97, 117, 116, 104, 101, 110, 116, 105, 99, 97, 116, 101, 100>> @@
   "system:masters" :> <<115, 121, 115, 116, 101, 109, 58, 109, 97, 115, 116, 101, 114, 115>> @@
   "APIGroups:" :> <<65, 80, 73, 71, 114, 111, 117, 112, 115, 58>> @@
   "Resources:" :> <<82, 101, 115, 111, 117, 114, 99, 101, 115, 58>> @@
   "NonResourceURLs:" :> <<78, 111, 110, 82, 101, 115, 111, 117, 114, 99, 101, 85, 82, 76, 115, 58>> @@
   "ResourceNames:" :> <<82, 101, 115, 111, 117, 114, 99, 101, 78, 97, 109, 101, 115, 58>> @@
   "Verbs:" :> <<86, 101, 114, 98, 115, 58>> @@
   ", " :> <<44, 32>> @@
   ":" :> <<58>> @@
   "/" :> <<47>> @@
   "," :> <<44>>

\* the string whose bytes are cs
StringOf(cs) == CHOOSE s \in DOMAIN Chars : Chars[s] = cs

\* bytes.Compare from position k on: -1, 0 or 1; the first byte that differs
\* decides, and the shorter comes first when the one is the head of the other
CompareBytes(a, b, k) ==
   LET differ == {j \in k..Len(a) : j <= Len(b) /\ a[j] # b[j]}
       first == CHOOSE j \in differ : \A l \in differ : j <= l
   IN IF differ # {} THEN (IF a[first] < b[first] THEN -1 ELSE 1)
      ELSE IF Len(a) < Len(b) THEN -1
      ELSE IF Len(a) > Len(b) THEN 1
      ELSE 0

\* strings.Compare on two strings of the model
StringsCompareTable == [a \in DOMAIN Chars, b \in DOMAIN Chars |-> CompareBytes(Chars[a], Chars[b], 1)]

StringsCompare(a, b) == StringsCompareTable[a, b]

\* strings.HasPrefix on bytes
HasPrefix(s, prefix) == Len(prefix) <= Len(s) /\ SubSeq(s, 1, Len(prefix)) = prefix

HasSuffix(s, suffix) ==
   Len(suffix) <= Len(s) /\ SubSeq(s, Len(s) - Len(suffix) + 1, Len(s)) = suffix

RECURSIVE TrimRight(_, _)
\* strings.TrimRight(s, cutset) for a cutset of one byte
TrimRight(s, c) ==
   IF Len(s) > 0 /\ s[Len(s)] = c THEN TrimRight(SubSeq(s, 1, Len(s) - 1), c) ELSE s

RECURSIVE SplitBytes(_, _, _)
\* strings.Split(s, sep) for a separator of one byte; cur is the part being read
SplitBytes(s, sep, cur) ==
   IF s = <<>> THEN <<cur>>
   ELSE IF Head(s) = sep THEN <<cur>> \o SplitBytes(Tail(s), sep, <<>>)
   ELSE SplitBytes(Tail(s), sep, Append(cur, Head(s)))

\* the elements of a sequence
Range(s) == {s[k] : k \in 1..Len(s)}

RECURSIVE InsertSorted(_, _)
InsertSorted(x, s) ==
   IF s = <<>> THEN <<x>>
   ELSE IF StringsCompare(x, Head(s)) < 0 THEN <<x>> \o s
   ELSE <<Head(s)>> \o InsertSorted(x, Tail(s))

RECURSIVE SortStrings(_)
\* sort.Strings
SortStrings(s) == IF s = <<>> THEN <<>> ELSE InsertSorted(Head(s), SortStrings(Tail(s)))

RECURSIVE SetList(_)
\* sets.String.List(): the members in ascending order
SetList(S) ==
   IF S = {} THEN <<>>
   ELSE LET m == CHOOSE x \in S : \A y \in S : StringsCompare(x, y) <= 0
        IN <<m>> \o SetList(S \ {m})

(***************************************************************************)
(* RBAC objects and their evaluation (k8s.io/api/rbac/v1 and the           *)
(* authorizer Generate calls).                                             *)
(***************************************************************************)
GroupName == "rbac.authorization.k8s.io"

ServiceAccountUsernamePrefix == "system:serviceaccount:"

ServiceAccountUsernameSeparator == ":"

\* rbacv1.PolicyRule
PolicyRule(verbs, groups, resources, names, urls) ==
   [Verbs |-> verbs, APIGroups |-> groups, Resources |-> resources,
    ResourceNames |-> names, NonResourceURLs |-> urls]

VerbMatches(rule, requestedVerb) ==
   \E ruleVerb \in Range(rule.Verbs) : ruleVerb = "*" \/ ruleVerb = requestedVerb

APIGroupMatches(rule, requestedGroup) ==
   \E ruleGroup \in Range(rule.APIGroups) : ruleGroup = "*" \/ ruleGroup = requestedGroup

ResourceMatches(rule, combinedRequestedResource, requestedSubresource) ==
   \E ruleResource \in Range(rule.Resources) :
      \/ ruleResource = "*"
      \/ ruleResource = combinedRequestedResource
      \/ /\ requestedSubresource # ""
         /\ Len(Chars[ruleResource]) = Len(Chars[requestedSubresource]) + 2
         /\ HasPrefix(Chars[ruleResource], Chars["*"] \o Chars["/"])
         /\ HasSuffix(Chars[ruleResource], Chars[requestedSubresource])

ResourceNameMatches(rule, requestedName) ==
   \/ Len(rule.ResourceNames) = 0
   \/ \E ruleName \in Range(rule.ResourceNames) : ruleName = requestedName

NonResourceURLMatches(rule, requestedURL) ==
   \E ruleURL \in Range(rule.NonResourceURLs) :
      \/ ruleURL = "*"
      \/ ruleURL = requestedURL
      \/ /\ HasSuffix(Chars[ruleURL], Chars["*"])
         /\ HasPrefix(Chars[requestedURL], TrimRight(Chars[ruleURL], 42))

\* the resource a rule must name to cover the request
CombinedResource(request) ==
   IF request.Subresource # "" THEN request.Resource \o "/" \o request.Subresource
   ELSE request.Resource

\* rbac.RuleAllows
RuleAllows(request, rule) ==
   IF request.ResourceRequest
   THEN /\ VerbMatches(rule, request.Verb)
        /\ APIGroupMatches(rule, request.APIGroup)
        /\ ResourceMatches(rule, CombinedResource(request), request.Subresource)
        /\ ResourceNameMatches(rule, request.Name)
   ELSE /\ VerbMatches(rule, request.Verb)
        /\ NonResourceURLMatches(rule, request.Path)

\* serviceaccount.MatchesUsername
MatchesUsername(namespace, name, username) ==
   LET u == Chars[username]
       p == Chars[ServiceAccountUsernamePrefix]
       n == Chars[namespace]
       s == Chars[ServiceAccountUsernameSeparator]
   IN /\ HasPrefix(u, p \o n \o s)
      /\ SubSeq(u, Len(p) + Len(n) + Len(s) + 1, Len(u)) = Chars[name]

\* validation.appliesToUser
appliesToUser(user, subject, namespace) ==
   CASE subject.Kind = "User" -> user.Name = subject.Name
     [] subject.Kind = "Group" -> subject.Name \in Range(user.Groups)
     [] subject.Kind = "ServiceAccount" ->
           LET saNamespace == IF subject.Namespace # "" THEN subject.Namespace ELSE namespace
           IN saNamespace # "" /\ MatchesUsername(saNamespace, subject.Name, user.Name)
     [] OTHER -> FALSE

\* validation.appliesTo
appliesTo(user, bindingSubjects, namespace) ==
   \E k \in 1..Len(bindingSubjects) : appliesToUser(user, bindingSubjects[k], namespace)

\* DefaultRuleResolver.GetRoleReferenceRules over StaticRoles: the rules of the
\* first role of that kind, name and namespace; none when the lookup fails
GetRoleReferenceRules(policy, roleRef, bindingNamespace) ==
   CASE roleRef.Kind = "Role" ->
           LET found == {k \in 1..Len(policy.Roles) :
                            /\ policy.Roles[k].Namespace = bindingNamespace
                            /\ policy.Roles[k].Name = roleRef.Name}
           IN IF bindingNamespace = "" \/ found = {} THEN <<>>
              ELSE policy.Roles[CHOOSE k \in found : \A l \in found : k <= l].Rules
     [] roleRef.Kind = "ClusterRole" ->
           LET found == {k \in 1..Len(policy.ClusterRoles) :
                            policy.ClusterRoles[k].Name = roleRef.Name}
           IN IF found = {} THEN <<>>
              ELSE policy.ClusterRoles[CHOOSE k \in found : \A l \in found : k <= l].Rules
     [] OTHER -> <<>>

\* DefaultRuleResolver.VisitRulesFor with the authorizingVisitor: some rule that
\* applies to the user in that namespace allows the request
Allowed(policy, request) ==
   \/ \E b \in 1..Len(policy.ClusterRoleBindings) :
         LET clusterRoleBinding == policy.ClusterRoleBindings[b]
         IN /\ appliesTo(request.User, clusterRoleBinding.Subjects, "")
            /\ \E rule \in Range(GetRoleReferenceRules(policy, clusterRoleBinding.RoleRef, "")) :
                  RuleAllows(request, rule)
   \/ /\ request.Namespace # ""
      /\ \E b \in 1..Len(policy.RoleBindings) :
            LET roleBinding == policy.RoleBindings[b]
            IN /\ roleBinding.Namespace = request.Namespace
               /\ appliesTo(request.User, roleBinding.Subjects, request.Namespace)
               /\ \E rule \in Range(GetRoleReferenceRules(policy, roleBinding.RoleRef,
                                                          request.Namespace)) :
                     RuleAllows(request, rule)

\* RBACAuthorizer.Authorize: allow, or no opinion
Authorize(policy, request) ==
   IF Allowed(policy, request) THEN "DecisionAllow" ELSE "DecisionNoOpinion"

\* the errors VisitRulesFor hands to the visitor: the bindings that apply to
\* the user and whose role is not found.  RBACAuthorizer.Authorize puts them in
\* its reason and returns a nil error; the decision is not changed by them
RuleResolutionErrors(policy, request) ==
   {<<"ClusterRoleBinding", b>> : b \in
       {b \in 1..Len(policy.ClusterRoleBindings) :
           /\ appliesTo(request.User, policy.ClusterRoleBindings[b].Subjects, "")
           /\ ~\E role \in Range(policy.ClusterRoles) :
                 role.Name = policy.ClusterRoleBindings[b].RoleRef.Name}}
   \cup
   {<<"RoleBinding", b>> : b \in
       {b \in 1..Len(policy.RoleBindings) :
           /\ request.Namespace # ""
           /\ policy.RoleBindings[b].Namespace = request.Namespace
           /\ appliesTo(request.User, policy.RoleBindings[b].Subjects, request.Namespace)
           /\ ~\E role \in Range(policy.Roles) :
                 /\ role.Namespace = request.Namespace
                 /\ role.Name = policy.RoleBindings[b].RoleRef.Name}}

(***************************************************************************)
(* Helpers of the generator.                                               *)
(***************************************************************************)
IsLowerAlnum(c) == (c >= 97 /\ c <= 122) \/ (c >= 48 /\ c <= 57)

\* validation.IsDNS1123Label: [a-z0-9]([-a-z0-9]*[a-z0-9])?, at most 63 bytes
IsDNS1123Label(s) ==
   /\ Len(s) >= 1 /\ Len(s) <= 63
   /\ \A k \in 1..Len(s) : IsLowerAlnum(s[k]) \/ s[k] = 45
   /\ IsLowerAlnum(s[1]) /\ IsLowerAlnum(s[Len(s)])

\* validation.IsDNS1123Subdomain: labels joined by dots, at most 253 bytes
IsDNS1123Subdomain(s) ==
   /\ Len(s) <= 253
   /\ LET labels == SplitBytes(s, 46, <<>>)
      IN \A k \in 1..Len(labels) :
            /\ Len(labels[k]) >= 1
            /\ \A l \in 1..Len(labels[k]) : IsLowerAlnum(labels[k][l]) \/ labels[k][l] = 45
            /\ IsLowerAlnum(labels[k][1]) /\ IsLowerAlnum(labels[k][Len(labels[k])])

\* serviceaccount.SplitUsername: ok is FALSE where the code returns an error
SplitUsername(username) ==
   LET u == Chars[username]
       p == Chars[ServiceAccountUsernamePrefix]
       parts == SplitBytes(SubSeq(u, Len(p) + 1, Len(u)), 58, <<>>)
   IN IF ~HasPrefix(u, p) THEN [ok |-> FALSE, namespace |-> "", name |-> ""]
      ELSE IF Len(parts) # 2 THEN [ok |-> FALSE, namespace |-> "", name |-> ""]
      ELSE IF ~IsDNS1123Label(parts[1]) THEN [ok |-> FALSE, namespace |-> "", name |-> ""]
      ELSE IF ~IsDNS1123Subdomain(parts[2]) THEN [ok |-> FALSE, namespace |-> "", name |-> ""]
      ELSE [ok |-> TRUE, namespace |-> StringOf(parts[1]), name |-> StringOf(parts[2])]

\* userToSubject without the service account case
userToSubjectAlwaysUser(user) ==
   [Kind |-> "User", APIGroup |-> GroupName, Name |-> user.Name, Namespace |-> ""]

userToSubject(user) ==
   LET split == SplitUsername(user.Name)
   IN IF split.ok
      THEN [Kind |-> "ServiceAccount", APIGroup |-> "", Name |-> split.name,
            Namespace |-> split.namespace]
      ELSE [Kind |-> "User", APIGroup |-> GroupName, Name |-> user.Name, Namespace |-> ""]

\* options.VerbExpansions[verb]: nil for a verb the map does not hold
VerbExpansion(options, verb) ==
   IF verb \in DOMAIN options.VerbExpansions THEN options.VerbExpansions[verb] ELSE <<>>

\* RuleOrDie handing out the lists as the builder got them
RuleOrDieAsBuilt(rule) == rule

\* PolicyRuleBuilder.RuleOrDie: the rule with every list sorted (no check of
\* the builder fails for the rules built here: they have a verb and either a
\* URL or a resource with a group)
RuleOrDie(rule) ==
   PolicyRule(SortStrings(rule.Verbs), SortStrings(rule.APIGroups), SortStrings(rule.Resources),
              SortStrings(rule.ResourceNames), SortStrings(rule.NonResourceURLs))

\* rbacv1helper.NewRule(request.Verb).URLs(request.Path).RuleOrDie()
attributesToNonResourceRule(request) ==
   RuleOrDie(PolicyRule(<<request.Verb>>, <<>>, <<>>, <<>>, <<request.Path>>))

attributesToResourceRule(request, options) ==
   LET verbs == <<request.Verb>> \o VerbExpansion(options, request.Verb)
       rule == RuleOrDie(PolicyRule(verbs, <<request.APIGroup>>, <<request.Resource>>, <<>>, <<>>))
       withSubresource ==
          IF request.Subresource # ""
          THEN [rule EXCEPT !.Resources[1] = rule.Resources[1] \o "/" \o request.Subresource]
          ELSE rule
   IN IF request.Name # ""
      THEN [withSubresource EXCEPT !.ResourceNames = <<request.Name>>]
      ELSE withSubresource

(***************************************************************************)
(* sort.SliceStable on at most 20 elements is one insertion sort, whatever *)
(* the comparison: less is the set of pairs <<x, y>> with less(x, y).      *)
(***************************************************************************)
RECURSIVE InsertionStep(_, _, _)
\* the inner loop: for j := i; j > a && less(j, j-1); j-- { swap(j, j-1) }
InsertionStep(data, j, less) ==
   IF j > 1 /\ <<data[j], data[j - 1]>> \in less
   THEN InsertionStep([data EXCEPT ![j] = data[j - 1], ![j - 1] = data[j]], j - 1, less)
   ELSE data

RECURSIVE InsertionSort(_, _, _)
InsertionSort(data, i, less) ==
   IF i > Len(data) THEN data
   ELSE InsertionSort(InsertionStep(data, i, less), i + 1, less)

SliceStable(data, less) == InsertionSort(data, 2, less)

\* the less function without the comparison of unnamed and named
requestLessWithoutNamedness(ri, rj) ==
   IF ri.ResourceRequest # rj.ResourceRequest THEN ~ri.ResourceRequest
   ELSE IF ri.ResourceRequest
   THEN IF (ri.Namespace = "") # (rj.Namespace = "") THEN ri.Namespace = ""
        ELSE IF ri.Verb = "list" /\ rj.Verb = "get" THEN TRUE
        ELSE IF ri.Verb = "get" /\ rj.Verb = "list" THEN FALSE
        ELSE IF StringsCompare(ri.APIGroup, rj.APIGroup) # 0
             THEN StringsCompare(ri.APIGroup, rj.APIGroup) < 0
        ELSE IF StringsCompare(ri.Resource, rj.Resource) # 0
             THEN StringsCompare(ri.Resource, rj.Resource) < 0
        ELSE IF StringsCompare(ri.Subresource, rj.Subresource) # 0
             THEN StringsCompare(ri.Subresource, rj.Subresource) < 0
        ELSE IF StringsCompare(ri.Namespace, rj.Namespace) # 0
             THEN StringsCompare(ri.Namespace, rj.Namespace) < 0
        ELSE IF StringsCompare(ri.Name, rj.Name) # 0
             THEN StringsCompare(ri.Name, rj.Name) < 0
        ELSE IF StringsCompare(ri.Verb, rj.Verb) # 0
             THEN StringsCompare(ri.Verb, rj.Verb) < 0
        ELSE FALSE
   ELSE IF StringsCompare(ri.Verb, rj.Verb) # 0
        THEN StringsCompare(ri.Verb, rj.Verb) < 0
   ELSE IF StringsCompare(ri.Path, rj.Path) # 0
        THEN StringsCompare(ri.Path, rj.Path) < 0
   ELSE FALSE

\* the less function sortRequests hands to sort.SliceStable
requestLess(ri, rj) ==
   IF ri.ResourceRequest # rj.ResourceRequest THEN ~ri.ResourceRequest
   ELSE IF ri.ResourceRequest
   THEN IF (ri.Namespace = "") # (rj.Namespace = "") THEN ri.Namespace = ""
        ELSE IF (ri.Name = "") # (rj.Name = "") THEN ri.Name = ""
        ELSE IF ri.Verb = "list" /\ rj.Verb = "get" THEN TRUE
        ELSE IF ri.Verb = "get" /\ rj.Verb = "list" THEN FALSE
        ELSE IF StringsCompare(ri.APIGroup, rj.APIGroup) # 0
             THEN StringsCompare(ri.APIGroup, rj.APIGroup) < 0
        ELSE IF StringsCompare(ri.Resource, rj.Resource) # 0
             THEN StringsCompare(ri.Resource, rj.Resource) < 0
        ELSE IF StringsCompare(ri.Subresource, rj.Subresource) # 0
             THEN StringsCompare(ri.Subresource, rj.Subresource) < 0
        ELSE IF StringsCompare(ri.Namespace, rj.Namespace) # 0
             THEN StringsCompare(ri.Namespace, rj.Namespace) < 0
        ELSE IF StringsCompare(ri.Name, rj.Name) # 0
             THEN StringsCompare(ri.Name, rj.Name) < 0
        ELSE IF StringsCompare(ri.Verb, rj.Verb) # 0
             THEN StringsCompare(ri.Verb, rj.Verb) < 0
        ELSE FALSE
   ELSE IF StringsCompare(ri.Verb, rj.Verb) # 0
        THEN StringsCompare(ri.Verb, rj.Verb) < 0
   ELSE IF StringsCompare(ri.Path, rj.Path) # 0
        THEN StringsCompare(ri.Path, rj.Path) < 0
   ELSE FALSE

\* sortRequests that leaves the requests as they come
sortRequestsKeepingOrder(reqs) == reqs

sortRequests(reqs) ==
   SliceStable(reqs, {p \in Range(reqs) \X Range(reqs) : requestLess(p[1], p[2])})

(***************************************************************************)
(* compactRules and the library calls it makes.                            *)
(***************************************************************************)
RECURSIVE Flatten(_)
\* the concatenation of a sequence of sequences
Flatten(ss) == IF ss = <<>> THEN <<>> ELSE Head(ss) \o Flatten(Tail(ss))

\* helpervalidation.BreakdownRule: one rule per group, resource, verb and name,
\* then one per URL and verb
BreakdownRule(rule) ==
   Flatten([g \in 1..Len(rule.APIGroups) |->
      Flatten([r \in 1..Len(rule.Resources) |->
         Flatten([v \in 1..Len(rule.Verbs) |->
            IF Len(rule.ResourceNames) > 0
            THEN [n \in 1..Len(rule.ResourceNames) |->
                    PolicyRule(<<rule.Verbs[v]>>, <<rule.APIGroups[g]>>, <<rule.Resources[r]>>,
                               <<rule.ResourceNames[n]>>, <<>>)]
            ELSE <<PolicyRule(<<rule.Verbs[v]>>, <<rule.APIGroups[g]>>, <<rule.Resources[r]>>,
                              <<>>, <<>>)>>])])])
   \o Flatten([u \in 1..Len(rule.NonResourceURLs) |->
         [v \in 1..Len(rule.Verbs) |->
            PolicyRule(<<rule.Verbs[v]>>, <<>>, <<>>, <<>>, <<rule.NonResourceURLs[u]>>)]])

\* the first loop of compactRules
breakdownRules(rules) == Flatten([k \in 1..Len(rules) |-> BreakdownRule(rules[k])])

\* validation.isSimpleResourceRule: the map key of a rule with one group, one
\* resource and at most one name
isSimpleResourceRule(rule) ==
   IF Len(rule.ResourceNames) > 1 \/ Len(rule.NonResourceURLs) > 0
   THEN [isSimple |-> FALSE]
   ELSE IF Len(rule.APIGroups) # 1 \/ Len(rule.Resources) # 1
   THEN [isSimple |-> FALSE]
   ELSE IF Len(rule.ResourceNames) = 0
   THEN [isSimple |-> TRUE, Group |-> rule.APIGroups[1], Resource |-> rule.Resources[1],
         ResourceNameExist |-> FALSE, ResourceName |-> ""]
   ELSE [isSimple |-> TRUE, Group |-> rule.APIGroups[1], Resource |-> rule.Resources[1],
         ResourceNameExist |-> TRUE, ResourceName |-> rule.ResourceNames[1]]

\* the keys of the map validation.CompactRules fills
simpleResources(rules) ==
   {isSimpleResourceRule(rules[k]) : k \in 1..Len(rules)} \ {[isSimple |-> FALSE]}

RECURSIVE simpleRuleFor(_, _, _, _)
\* the map entry of a key: the first rule with that key, with the verbs of the
\* later ones appended
simpleRuleFor(rules, key, k, entry) ==
   IF k > Len(rules) THEN entry
   ELSE IF isSimpleResourceRule(rules[k]) # key THEN simpleRuleFor(rules, key, k + 1, entry)
   ELSE IF entry = <<>> THEN simpleRuleFor(rules, key, k + 1, <<rules[k]>>)
   ELSE simpleRuleFor(rules, key, k + 1,
                      <<[entry[1] EXCEPT !.Verbs = entry[1].Verbs \o rules[k].Verbs]>>)

\* validation.CompactRules: the rules that are not simple in their order, then
\* the entries of the map in the order the map's iteration yields its keys
CompactRules(rules, order) ==
   SelectSeq(rules, LAMBDA rule : ~isSimpleResourceRule(rule).isSimple)
   \o [k \in 1..Len(order) |-> simpleRuleFor(rules, order[k], 1, <<>>)[1]]

\* the search with both fields stripped from the two rules at once
firstAccumulatingStrippingBoth(accumulatingRules, rule) ==
   LET found == {j \in 1..Len(accumulatingRules) :
                   [rule EXCEPT !.ResourceNames = <<>>, !.Resources = <<>>]
                   = [accumulatingRules[j] EXCEPT !.ResourceNames = <<>>, !.Resources = <<>>]}
   IN IF found = {} THEN 0 ELSE CHOOSE j \in found : \A l \in found : j <= l

\* the accumulation loop's search: the first accumulating rule that the rule
\* equals up to its names or up to its resources; 0 when there is none
firstAccumulating(accumulatingRules, rule) ==
   LET found == {j \in 1..Len(accumulatingRules) :
                   \/ [rule EXCEPT !.ResourceNames = <<>>]
                      = [accumulatingRules[j] EXCEPT !.ResourceNames = <<>>]
                   \/ [rule EXCEPT !.Resources = <<>>]
                      = [accumulatingRules[j] EXCEPT !.Resources = <<>>]}
   IN IF found = {} THEN 0 ELSE CHOOSE j \in found : \A l \in found : j <= l

\* one round of the accumulation loop
accumulate(accumulatingRules, rule) ==
   LET j == firstAccumulating(accumulatingRules, rule)
       accumulatingRule == accumulatingRules[j]
   IN IF Len(rule.Resources) = 0 THEN Append(accumulatingRules, rule)
      ELSE IF j = 0 THEN Append(accumulatingRules, rule)
      ELSE IF [rule EXCEPT !.ResourceNames = <<>>]
              = [accumulatingRule EXCEPT !.ResourceNames = <<>>]
      THEN [accumulatingRules EXCEPT ![j].ResourceNames =
              SetList(Range(accumulatingRule.ResourceNames) \cup Range(rule.ResourceNames))]
      ELSE [accumulatingRules EXCEPT ![j].Resources =
              SetList(Range(accumulatingRule.Resources) \cup Range(rule.Resources))]

RECURSIVE accumulateAll(_, _, _)
accumulateAll(rules, k, accumulatingRules) ==
   IF k > Len(rules) THEN accumulatingRules
   ELSE accumulateAll(rules, k + 1, accumulate(accumulatingRules, rules[k]))

RECURSIVE JoinBytes(_, _)
\* strings.Join on bytes
JoinBytes(parts, sep) ==
   IF parts = <<>> THEN <<>>
   ELSE IF Len(parts) = 1 THEN parts[1]
   ELSE parts[1] \o sep \o JoinBytes(Tail(parts), sep)

\* %q of a []string: ["a" "b"]
QuotedList(strs) ==
   <<91>> \o JoinBytes([k \in 1..Len(strs) |-> <<34>> \o Chars[strs[k]] \o <<34>>], <<32>>) \o <<93>>

\* rbacv1helper.CompactString
CompactString(r) ==
   LET part(label, strs) == IF Len(strs) > 0 THEN <<Chars[label] \o QuotedList(strs)>> ELSE <<>>
   IN <<123>>
      \o JoinBytes(part("APIGroups:", r.APIGroups) \o part("Resources:", r.Resources)
                   \o part("NonResourceURLs:", r.NonResourceURLs)
                   \o part("ResourceNames:", r.ResourceNames) \o part("Verbs:", r.Verbs),
                   Chars[", "])
      \o <<125>>

\* the less function compactRules hands to sort.SliceStable
ruleLess(ri, rj) ==
   LET gi == JoinBytes([k \in 1..Len(ri.APIGroups) |-> Chars[ri.APIGroups[k]]], Chars[","])
       gj == JoinBytes([k \in 1..Len(rj.APIGroups) |-> Chars[rj.APIGroups[k]]], Chars[","])
   IN IF CompareBytes(gi, gj, 1) # 0 THEN CompareBytes(gi, gj, 1) < 0
      ELSE CompareBytes(CompactString(ri), CompactString(rj), 1) < 0

\* compactRules without the loop of lines 56-58 that dedupes the verbs
compactRulesKeepingVerbs(rules, order) ==
   LET compact == CompactRules(breakdownRules(rules), order)
       accumulatingRules == accumulateAll(compact, 1, <<>>)
   IN SliceStable(accumulatingRules,
                  {p \in Range(accumulatingRules) \X Range(accumulatingRules) :
                      ruleLess(p[1], p[2])})

\* compactRules, given the order in which the map of validation.CompactRules
\* yields its keys (validation.CompactRules returns no error)
compactRules(rules, order) ==
   LET compact == CompactRules(breakdownRules(rules), order)
       deduped == [k \in 1..Len(compact) |->
                     [compact[k] EXCEPT !.Verbs = SetList(Range(compact[k].Verbs))]]
       accumulatingRules == accumulateAll(deduped, 1, <<>>)
   IN SliceStable(accumulatingRules,
                  {p \in Range(accumulatingRules) \X Range(accumulatingRules) :
                      ruleLess(p[1], p[2])})

\* compactRules that returns no rules when validation.CompactRules fails
compactRulesOrNothing(rules, order, err) ==
   IF err THEN <<>> ELSE compactRules(rules, order)

\* compactRules, given also whether validation.CompactRules returns an error:
\* if err != nil { return rules }
compactRulesOrFallback(rules, order, err) ==
   IF err THEN rules ELSE compactRules(rules, order)

RECURSIVE Orderings(_)
\* every order in which a Go map can yield the keys S
Orderings(S) ==
   IF S = {} THEN {<<>>}
   ELSE UNION {{<<x>> \o o : o \in Orderings(S \ {x})} : x \in S}

(***************************************************************************)
(* The generator.  Objects live in the four lists of generated; a pointer  *)
(* to an object is its index in its list, 0 for nil.                       *)
(***************************************************************************)
VARIABLES
   attempts,              \* the attempt list as the caller built it
   existing,              \* g.existing
   requests,              \* g.requests: the caller's slice, sorted in place
   Options,               \* g.Options
   generated,             \* g.generated
   generatedGetter,       \* g.generatedGetter: the objects the generated authorizer reads
   clusterRole,           \* g.clusterRole
   clusterRoleBinding,    \* g.clusterRoleBinding
   namespacedRole,        \* g.namespacedRole
   namespacedRoleBinding, \* g.namespacedRoleBinding
   pc,                    \* where Generate stands
   i,                     \* the index of the loop Generate is in
   appended,              \* the rules appended so far, with the request of each
   raw,                   \* the roles as they were when the compaction began
   results,               \* Run: the events the filters let through, in order
   attributes,            \* Run: the attempts converted so far
   failed,                \* the roles for which validation.CompactRules returned an error
   pipe                   \* Run: the goroutines and channels that load the events

vars == <<attempts, existing, requests, Options, generated, generatedGetter, clusterRole,
          clusterRoleBinding, namespacedRole, namespacedRoleBinding, pc, i, appended, raw,
          results, attributes, failed, pipe>>

\* DefaultGenerateOptions().VerbExpansions
DefaultVerbExpansions ==
   "watch" :> <<"get", "list">> @@ "list" :> <<"get", "watch">> @@
   "update" :> <<"get", "patch">> @@ "patch" :> <<"get", "update">>

\* DefaultGenerateOptions with the two flags as given
GenerateOptions(names, namespaces) ==
   [VerbExpansions |-> DefaultVerbExpansions,
    ExpandMultipleNamesToUnnamed |-> names,
    ExpandMultipleNamespacesToClusterScoped |-> namespaces,
    Name |-> "audit2rbac", Labels |-> <<>>, Annotations |-> <<>>]

\* RBACObjects{}
NoObjects == [Roles |-> <<>>, RoleBindings |-> <<>>, ClusterRoles |-> <<>>,
              ClusterRoleBindings |-> <<>>]

\* validation.NewTestRuleResolver(roles, roleBindings, clusterRoles,
\* clusterRoleBindings): the getter keeps the pointers it is given
StaticRoles(objects) ==
   [roles |-> [k \in 1..Len(objects.Roles) |-> k],
    roleBindings |-> [k \in 1..Len(objects.RoleBindings) |-> k],
    clusterRoles |-> [k \in 1..Len(objects.ClusterRoles) |-> k],
    clusterRoleBindings |-> [k \in 1..Len(objects.ClusterRoleBindings) |-> k]]

\* what a getter reads: the objects its pointers point to, as they are now
GetterObjects(getter, objects) ==
   [Roles |-> [k \in 1..Len(getter.roles) |-> objects.Roles[getter.roles[k]]],
    RoleBindings |-> [k \in 1..Len(getter.roleBindings) |-> objects.RoleBindings[getter.roleBindings[k]]],
    ClusterRoles |-> [k \in 1..Len(getter.clusterRoles) |-> objects.ClusterRoles[getter.clusterRoles[k]]],
    ClusterRoleBindings |-> [k \in 1..Len(getter.clusterRoleBindings) |->
                                objects.ClusterRoleBindings[getter.clusterRoleBindings[k]]]]

\* NewGenerator
NewGenerator(existingObjects, attemptList, options) ==
   /\ attempts = attemptList
   /\ existing = existingObjects
   /\ requests = attemptList
   /\ Options = options
   /\ generated = NoObjects
   /\ generatedGetter = StaticRoles(NoObjects)
   /\ clusterRole = 0
   /\ clusterRoleBinding = 0
   /\ namespacedRole = <<>>
   /\ namespacedRoleBinding = <<>>
   /\ pc = "sort"
   /\ i = 1
   /\ appended = <<>>
   /\ raw = NoObjects
   /\ failed = {}

\* the part of the generator's state the two ensure functions change
ensured(objects, getter, cr, crb, nr, nrb) ==
   [generated |-> objects, generatedGetter |-> getter, clusterRole |-> cr,
    clusterRoleBinding |-> crb, namespacedRole |-> nr, namespacedRoleBinding |-> nrb]

\* ensureClusterRoleAndBinding without the test for a cluster role made before
ensureClusterRoleAndBindingAnew(g, options, subject) ==
   LET role == [Name |-> options.Name, Namespace |-> "", Labels |-> options.Labels,
                Annotations |-> options.Annotations, Rules |-> <<>>]
       binding == [Name |-> options.Name, Namespace |-> "", Labels |-> options.Labels,
                   Annotations |-> options.Annotations,
                   RoleRef |-> [APIGroup |-> GroupName, Kind |-> "ClusterRole",
                                Name |-> role.Name],
                   Subjects |-> <<subject>>]
       objects == [g.generated EXCEPT
                      !.ClusterRoles = Append(@, role),
                      !.ClusterRoleBindings = Append(@, binding)]
   IN ensured(objects, StaticRoles(objects), Len(objects.ClusterRoles),
              Len(objects.ClusterRoleBindings), g.namespacedRole, g.namespacedRoleBinding)

\* ensureClusterRoleAndBinding without lines 178-179: the getter is left as it was
ensureClusterRoleAndBindingStale(g, options, subject) ==
   IF g.clusterRole # 0 THEN g
   ELSE LET role == [Name |-> options.Name, Namespace |-> "", Labels |-> options.Labels,
                     Annotations |-> options.Annotations, Rules |-> <<>>]
            binding == [Name |-> options.Name, Namespace |-> "", Labels |-> options.Labels,
                        Annotations |-> options.Annotations,
                        RoleRef |-> [APIGroup |-> GroupName, Kind |-> "ClusterRole",
                                     Name |-> role.Name],
                        Subjects |-> <<subject>>]
            objects == [g.generated EXCEPT
                           !.ClusterRoles = Append(@, role),
                           !.ClusterRoleBindings = Append(@, binding)]
        IN ensured(objects, g.generatedGetter, Len(objects.ClusterRoles),
                   Len(objects.ClusterRoleBindings), g.namespacedRole, g.namespacedRoleBinding)

\* ensureClusterRoleAndBinding, on the state g
ensureClusterRoleAndBinding(g, options, subject) ==
   IF g.clusterRole # 0 THEN g
   ELSE LET role == [Name |-> options.Name, Namespace |-> "", Labels |-> options.Labels,
                     Annotations |-> options.Annotations, Rules |-> <<>>]
            binding == [Name |-> options.Name, Namespace |-> "", Labels |-> options.Labels,
                        Annotations |-> options.Annotations,
                        RoleRef |-> [APIGroup |-> GroupName, Kind |-> "ClusterRole",
                                     Name |-> role.Name],
                        Subjects |-> <<subject>>]
            objects == [g.generated EXCEPT
                           !.ClusterRoles = Append(@, role),
                           !.ClusterRoleBindings = Append(@, binding)]
        IN ensured(objects, StaticRoles(objects), Len(objects.ClusterRoles),
                   Len(objects.ClusterRoleBindings), g.namespacedRole, g.namespacedRoleBinding)

\* ensureNamespacedRoleAndBinding with the roleRef of a cluster role binding
ensureNamespacedRoleAndBindingClusterRef(g, options, subject, namespace) ==
   IF namespace \in DOMAIN g.namespacedRole THEN g
   ELSE LET role == [Name |-> options.Name, Namespace |-> namespace, Labels |-> options.Labels,
                     Annotations |-> options.Annotations, Rules |-> <<>>]
            binding == [Name |-> options.Name, Namespace |-> namespace,
                        Labels |-> options.Labels, Annotations |-> options.Annotations,
                        RoleRef |-> [APIGroup |-> GroupName, Kind |-> "ClusterRole",
                                     Name |-> role.Name],
                        Subjects |-> <<subject>>]
            objects == [g.generated EXCEPT
                           !.Roles = Append(@, role),
                           !.RoleBindings = Append(@, binding)]
        IN [generated |-> objects, generatedGetter |-> StaticRoles(objects),
            clusterRole |-> g.clusterRole, clusterRoleBinding |-> g.clusterRoleBinding,
            namespacedRole |-> (namespace :> Len(objects.Roles)) @@ g.namespacedRole,
            namespacedRoleBinding |->
               (namespace :> Len(objects.RoleBindings)) @@ g.namespacedRoleBinding]

\* ensureNamespacedRoleAndBinding, on the state g
ensureNamespacedRoleAndBinding(g, options, subject, namespace) ==
   IF namespace \in DOMAIN g.namespacedRole THEN g
   ELSE LET role == [Name |-> options.Name, Namespace |-> namespace, Labels |-> options.Labels,
                     Annotations |-> options.Annotations, Rules |-> <<>>]
            binding == [Name |-> options.Name, Namespace |-> namespace,
                        Labels |-> options.Labels, Annotations |-> options.Annotations,
                        RoleRef |-> [APIGroup |-> GroupName, Kind |-> "Role", Name |-> role.Name],
                        Subjects |-> <<subject>>]
            objects == [g.generated EXCEPT
                           !.Roles = Append(@, role),
                           !.RoleBindings = Append(@, binding)]
        IN ensured(objects, StaticRoles(objects), g.clusterRole, g.clusterRoleBinding,
                   (namespace :> Len(objects.Roles)) @@ g.namespacedRole,
                   (namespace :> Len(objects.RoleBindings)) @@ g.namespacedRoleBinding)

\* requestCopy: the request without the fields the search ignores
requestCopyOf(request, options) ==
   [request EXCEPT
      !.Name = IF options.ExpandMultipleNamesToUnnamed THEN "" ELSE @,
      !.Namespace = IF options.ExpandMultipleNamespacesToClusterScoped THEN "" ELSE @,
      !.Path = ""]

RECURSIVE searchOthers(_, _, _, _, _)
\* the search for other requests that differ only by name or namespace, from
\* the k-th request on; returns the request as the search leaves it
searchOthers(request, requestCopy, reqs, options, k) ==
   IF k > Len(reqs) THEN request
   ELSE LET a == reqs[k]
            differentNamespace == a.Namespace # "" /\ a.Namespace # request.Namespace
            differentName == a.Name # "" /\ a.Name # request.Name
        IN IF ~a.ResourceRequest THEN searchOthers(request, requestCopy, reqs, options, k + 1)
           ELSE IF requestCopy = requestCopyOf(a, options)
           THEN searchOthers(
                   [request EXCEPT
                      !.Namespace = IF options.ExpandMultipleNamespacesToClusterScoped
                                       /\ differentNamespace THEN "" ELSE @,
                      !.Name = IF options.ExpandMultipleNamesToUnnamed /\ differentName
                               THEN "" ELSE @],
                   requestCopy, reqs, options, k + 1)
           ELSE searchOthers(request, requestCopy, reqs, options, k + 1)

\* the broadening that searches only for a request with a name
broadenNamedOnly(request, reqs, options) ==
   IF request.Name # "" /\ options.ExpandMultipleNamesToUnnamed
   THEN searchOthers(request, requestCopyOf(request, options), reqs, options, 1)
   ELSE request

\* the broadening that does not look at the two flags
broadenWhateverTheFlags(request, reqs, options) ==
   LET on == [options EXCEPT !.ExpandMultipleNamesToUnnamed = TRUE,
                             !.ExpandMultipleNamespacesToClusterScoped = TRUE]
   IN IF request.Namespace # "" \/ request.Name # ""
      THEN searchOthers(request, requestCopyOf(request, on), reqs, on, 1)
      ELSE request

\* the request after the broadening of lines 106-139
broaden(request, reqs, options) ==
   IF \/ request.Namespace # "" /\ options.ExpandMultipleNamespacesToClusterScoped
      \/ request.Name # "" /\ options.ExpandMultipleNamesToUnnamed
   THEN searchOthers(request, requestCopyOf(request, options), reqs, options, 1)
   ELSE request

\* what one pass of the loop does for a request neither policy allows: the
\* generator's state after it, the rule it appended and where
cover(g, request, reqs, options) ==
   IF ~request.ResourceRequest
   THEN LET e == ensureClusterRoleAndBinding(g, options, userToSubject(request.User))
            rule == attributesToNonResourceRule(request)
        IN [g |-> [e EXCEPT !.generated.ClusterRoles[e.clusterRole].Rules = Append(@, rule)],
            entry |-> [request |-> request, broadened |-> request, kind |-> "ClusterRole",
                       namespace |-> "", rule |-> rule]]
   ELSE LET b == broaden(request, reqs, options)
            rule == attributesToResourceRule(b, options)
        IN IF b.Namespace = ""
           THEN LET e == ensureClusterRoleAndBinding(g, options, userToSubject(b.User))
                IN [g |-> [e EXCEPT !.generated.ClusterRoles[e.clusterRole].Rules = Append(@, rule)],
                    entry |-> [request |-> request, broadened |-> b, kind |-> "ClusterRole",
                               namespace |-> "", rule |-> rule]]
           ELSE LET e == ensureNamespacedRoleAndBinding(g, options, userToSubject(b.User),
                                                        b.Namespace)
                IN [g |-> [e EXCEPT !.generated.Roles[e.namespacedRole[b.Namespace]].Rules =
                                       Append(@, rule)],
                    entry |-> [request |-> request, broadened |-> b, kind |-> "Role",
                               namespace |-> b.Namespace, rule |-> rule]]

\* the head of the loop without the check against the existing policy
skippedByGeneratedOnly(request) ==
   Authorize(GetterObjects(generatedGetter, generated), request) = "DecisionAllow"

\* the head of the loop without the check against the generated policy
skippedByExistingOnly(request) ==
   Authorize(existing, request) = "DecisionAllow"

\* the head of the loop that also skips a request whose check met an error
skippedOrFailed(request) ==
   \/ Authorize(existing, request) = "DecisionAllow"
   \/ Authorize(GetterObjects(generatedGetter, generated), request) = "DecisionAllow"
   \/ RuleResolutionErrors(existing, request) # {}

\* the two checks at the head of the loop
skipped(request) ==
   \/ Authorize(existing, request) = "DecisionAllow"
   \/ Authorize(GetterObjects(generatedGetter, generated), request) = "DecisionAllow"

\* sortRequests(g.requests)
SortRequests ==
   /\ pc = "sort"
   /\ requests' = sortRequests(requests)
   /\ pc' = "requests"
   /\ i' = 1
   /\ UNCHANGED <<attempts, existing, Options, generated, generatedGetter, clusterRole,
                  clusterRoleBinding, namespacedRole, namespacedRoleBinding, appended, raw>>
   /\ UNCHANGED <<results, attributes, failed, pipe>>

\* one pass of the loop over g.requests
ProcessRequest ==
   /\ pc = "requests"
   /\ i <= Len(requests)
   /\ LET request == requests[i]
          g == ensured(generated, generatedGetter, clusterRole, clusterRoleBinding,
                       namespacedRole, namespacedRoleBinding)
          c == cover(g, request, requests, Options)
      IN IF skipped(request)
         THEN UNCHANGED <<generated, generatedGetter, clusterRole, clusterRoleBinding,
                          namespacedRole, namespacedRoleBinding, appended>>
         ELSE /\ generated' = c.g.generated
              /\ generatedGetter' = c.g.generatedGetter
              /\ clusterRole' = c.g.clusterRole
              /\ clusterRoleBinding' = c.g.clusterRoleBinding
              /\ namespacedRole' = c.g.namespacedRole
              /\ namespacedRoleBinding' = c.g.namespacedRoleBinding
              /\ appended' = Append(appended, c.entry)
   /\ i' = i + 1
   /\ UNCHANGED <<attempts, existing, requests, Options, pc, raw>>
   /\ UNCHANGED <<results, attributes, failed, pipe>>

\* the loop over g.requests ends
BeginCompaction ==
   /\ pc = "requests"
   /\ i > Len(requests)
   /\ pc' = "compact"
   /\ i' = 1
   /\ raw' = generated
   /\ UNCHANGED <<attempts, existing, requests, Options, generated, generatedGetter,
                  clusterRole, clusterRoleBinding, namespacedRole, namespacedRoleBinding,
                  appended>>
   /\ UNCHANGED <<results, attributes, failed, pipe>>

\* one pass of the two compaction loops: the cluster roles, then the roles;
\* the map inside validation.CompactRules yields its keys in any order
CompactRole ==
   /\ pc = "compact"
   /\ i <= Len(generated.ClusterRoles) + Len(generated.Roles)
   /\ IF i <= Len(generated.ClusterRoles)
      THEN \E order \in Orderings(simpleResources(breakdownRules(generated.ClusterRoles[i].Rules))) :
              generated' = [generated EXCEPT !.ClusterRoles[i].Rules = compactRules(@, order)]
      ELSE LET r == i - Len(generated.ClusterRoles)
           IN \E order \in Orderings(simpleResources(breakdownRules(generated.Roles[r].Rules))) :
                 generated' = [generated EXCEPT !.Roles[r].Rules = compactRules(@, order)]
   /\ i' = i + 1
   /\ UNCHANGED <<attempts, existing, requests, Options, generatedGetter, clusterRole,
                  clusterRoleBinding, namespacedRole, namespacedRoleBinding, pc, appended, raw>>
   /\ UNCHANGED <<results, attributes, failed, pipe>>

\* one pass of the two compaction loops when validation.CompactRules can
\* return an error
CompactRoleOrFallback ==
   /\ pc = "compact"
   /\ i <= Len(generated.ClusterRoles) + Len(generated.Roles)
   /\ \E err \in BOOLEAN :
         /\ IF i <= Len(generated.ClusterRoles)
            THEN \E order \in Orderings(simpleResources(breakdownRules(
                                           generated.ClusterRoles[i].Rules))) :
                    generated' = [generated EXCEPT !.ClusterRoles[i].Rules =
                                     compactRulesOrFallback(@, order, err)]
            ELSE LET r == i - Len(generated.ClusterRoles)
                 IN \E order \in Orderings(simpleResources(breakdownRules(
                                              generated.Roles[r].Rules))) :
                       generated' = [generated EXCEPT !.Roles[r].Rules =
                                        compactRulesOrFallback(@, order, err)]
         /\ failed' = IF err THEN failed \cup {i} ELSE failed
   /\ i' = i + 1
   /\ UNCHANGED <<attempts, existing, requests, Options, generatedGetter, clusterRole,
                  clusterRoleBinding, namespacedRole, namespacedRoleBinding, pc, appended, raw>>
   /\ UNCHANGED <<results, attributes, pipe>>

\* return &g.generated
Return ==
   /\ pc = "compact"
   /\ i > Len(generated.ClusterRoles) + Len(generated.Roles)
   /\ pc' = "done"
   /\ UNCHANGED <<attempts, existing, requests, Options, generated, generatedGetter,
                  clusterRole, clusterRoleBinding, namespacedRole, namespacedRoleBinding,
                  i, appended, raw>>
   /\ UNCHANGED <<results, attributes, failed, pipe>>

Next == SortRequests \/ ProcessRequest \/ BeginCompaction \/ CompactRole \/ Return

\* Generate when validation.CompactRules can return an error
NextFallback ==
   SortRequests \/ ProcessRequest \/ BeginCompaction \/ CompactRoleOrFallback \/ Return

(***************************************************************************)
(* Generate as a function of its inputs: what a call can return.           *)
(***************************************************************************)
RECURSIVE processRequests(_, _, _, _, _)
\* the loop over g.requests from the k-th request on, started in the state g:
\* the objects generated when it ends
processRequests(g, existingObjects, reqs, options, k) ==
   IF k > Len(reqs) THEN g.generated
   ELSE IF \/ Authorize(existingObjects, reqs[k]) = "DecisionAllow"
           \/ Authorize(GetterObjects(g.generatedGetter, g.generated), reqs[k]) = "DecisionAllow"
        THEN processRequests(g, existingObjects, reqs, options, k + 1)
        ELSE processRequests(cover(g, reqs[k], reqs, options).g, existingObjects, reqs,
                             options, k + 1)

\* the objects with the rules of the j-th role compacted, one for each order
\* in which the maps of validation.CompactRules yield
compactRole(objects, j) ==
   IF j <= Len(objects.ClusterRoles)
   THEN {[objects EXCEPT !.ClusterRoles[j].Rules = compactRules(@, order)] :
            order \in Orderings(simpleResources(breakdownRules(objects.ClusterRoles[j].Rules)))}
   ELSE LET r == j - Len(objects.ClusterRoles)
        IN {[objects EXCEPT !.Roles[r].Rules = compactRules(@, order)] :
               order \in Orderings(simpleResources(breakdownRules(objects.Roles[r].Rules)))}

RECURSIVE compactRoles(_, _)
\* the two compaction loops from the j-th role on: the objects they can leave
compactRoles(objects, j) ==
   IF j > Len(objects.ClusterRoles) + Len(objects.Roles) THEN {objects}
   ELSE UNION {compactRoles(compacted, j + 1) : compacted \in compactRole(objects, j)}

\* NewGenerator(existingObjects, attemptList, options).Generate(): the objects
\* the call can return
Generate(existingObjects, attemptList, options) ==
   UNION {compactRoles(objects, 1) :
             objects \in {processRequests(ensured(NoObjects, StaticRoles(NoObjects), 0, 0,
                                                  <<>>, <<>>),
                                          existingObjects, sortRequests(attemptList),
                                          options, 1)}}

(***************************************************************************)
(* The pipeline of Run that loads the events: stream, flatten, typecast,   *)
(* convertinternal, filterEvents and the loop that collects.  Every        *)
(* channel is unbuffered: a send and its receive are one step of both      *)
(* goroutines.  A message is a *streamObject; its obj is an object of its  *)
(* own or, with ref, the address of the loop variable of flatten.          *)
(***************************************************************************)
\* what no step of the pipeline changes
generatorVars == <<attempts, existing, requests, Options, generated, generatedGetter,
                   clusterRole, clusterRoleBinding, namespacedRole, namespacedRoleBinding,
                   pc, i, appended, raw, results, attributes, failed>>

\* &streamObject{obj: &item}
Pointer == [err |-> "", obj |-> <<>>, ref |-> TRUE]

\* &streamObject{obj: o}
Object(o) == [err |-> "", obj |-> <<o>>, ref |-> FALSE]

\* &streamObject{err: e}
Failure(e) == [err |-> e, obj |-> <<>>, ref |-> FALSE]

\* no message at hand
Nothing == [err |-> "", obj |-> <<>>, ref |-> FALSE]

\* a goroutine of a stage and the message it holds
Goroutine(at, msg) == [pc |-> at, msg |-> msg]

\* the pipeline before Run starts it, and in the behaviours that leave it out
NoPipeline ==
   [streams |-> <<>>, decErr |-> <<>>, reader |-> <<>>,
    closed |-> [c \in {"stream", "flatten", "typecast", "convertinternal", "filterEvents"}
                  |-> FALSE],
    flatten |-> Goroutine("recv", Nothing), items |-> <<>>, item |-> <<>>,
    typecast |-> Goroutine("recv", Nothing), typed |-> "",
    convertinternal |-> Goroutine("recv", Nothing),
    filterEvents |-> Goroutine("recv", Nothing),
    run |-> "recv", hasErrors |-> FALSE, loaded |-> <<>>,
    flattened |-> <<>>, typecasted |-> <<>>]

\* stream(streams) ... filterEvents(...) have returned their channels: one
\* reader for each source, each stage waiting for its first message
StartedPipeline(sources) ==
   [NoPipeline EXCEPT
      !.streams = sources,
      !.decErr = [r \in 1..Len(sources) |-> FALSE],
      !.reader = [r \in 1..Len(sources) |-> Goroutine("decode", Nothing)]]

\* the object a message holds, read now: through the pointer, what the loop
\* variable of flatten holds at this moment
Deref(p, m) == IF m.ref THEN p.item ELSE m.obj[1]

\* the kinds pkg.Scheme knows
Registered == {"Event", "Policy"}

\* a.User
User == "bob"

\* stream: d.Decode(obj) of the reader r.  json.Decoder keeps a syntax error
\* and returns it from every later call; the YAML decoder goes on with the
\* next document
Decode(r) ==
   /\ r \in 1..Len(pipe.reader)
   /\ pipe.reader[r].pc = "decode"
   /\ LET docs == pipe.streams[r].docs
      IN IF pipe.decErr[r]
         THEN pipe' = [pipe EXCEPT !.reader[r] = Goroutine("send", Failure("syntax error"))]
         ELSE IF docs = <<>>
         THEN pipe' = [pipe EXCEPT !.reader[r] = Goroutine("done", Nothing)]
         ELSE IF Head(docs).kind = ""
         THEN pipe' = [pipe EXCEPT !.streams[r].docs = Tail(docs),
                                   !.decErr[r] = (pipe.streams[r].format = "json"),
                                   !.reader[r] = Goroutine("send", Failure("syntax error"))]
         ELSE pipe' = [pipe EXCEPT !.streams[r].docs = Tail(docs),
                                   !.reader[r] = Goroutine("send", Object(Head(docs)))]
   /\ UNCHANGED generatorVars

\* flatten, from the receive to the send or to the loop over list.Items
flattenReceive(p, m) ==
   IF m.err # "" \/ m.obj[1].kind # "List"
   THEN [p EXCEPT !.flatten = Goroutine("send", m)]
   ELSE [p EXCEPT !.items = m.obj[1].items,
                  !.flatten = Goroutine(IF m.obj[1].items = <<>> THEN "recv" ELSE "items",
                                        Nothing)]

\* out <- of the reader r, received by flatten
StreamSend(r) ==
   /\ r \in 1..Len(pipe.reader)
   /\ pipe.reader[r].pc = "send"
   /\ pipe.flatten.pc = "recv"
   /\ pipe' = flattenReceive([pipe EXCEPT !.reader[r] = Goroutine("decode", Nothing)],
                             pipe.reader[r].msg)
   /\ UNCHANGED generatorVars

\* wg.Wait(); close(out)
CloseStream ==
   /\ ~pipe.closed["stream"]
   /\ \A r \in 1..Len(pipe.reader) : pipe.reader[r].pc = "done"
   /\ pipe' = [pipe EXCEPT !.closed["stream"] = TRUE]
   /\ UNCHANGED generatorVars

\* flatten: for _, item := range list.Items, up to the send of &item
FlattenItem ==
   /\ pipe.flatten.pc = "items"
   /\ pipe' = [pipe EXCEPT !.item = Head(pipe.items),
                           !.items = Tail(pipe.items),
                           !.flatten = Goroutine("send", Pointer),
                           !.flattened = Append(@, Head(pipe.items))]
   /\ UNCHANGED generatorVars

\* out <- of flatten, received by typecast
FlattenSend ==
   /\ pipe.flatten.pc = "send"
   /\ pipe.typecast.pc = "recv"
   /\ pipe' = [pipe EXCEPT
                  !.flatten = Goroutine(IF pipe.items # <<>> THEN "items" ELSE "recv", Nothing),
                  !.typecast = Goroutine(IF pipe.flatten.msg.err # "" THEN "send" ELSE "new",
                                         pipe.flatten.msg)]
   /\ UNCHANGED generatorVars

\* flatten: the range over in ends, defer close(out)
FlattenEnd ==
   /\ pipe.flatten.pc = "recv"
   /\ pipe.closed["stream"]
   /\ pipe' = [pipe EXCEPT !.flatten = Goroutine("done", Nothing), !.closed["flatten"] = TRUE]
   /\ UNCHANGED generatorVars

\* typecast: creator.New(result.obj.GetObjectKind().GroupVersionKind())
TypecastNew ==
   /\ pipe.typecast.pc = "new"
   /\ LET o == Deref(pipe, pipe.typecast.msg)
      IN IF o.kind \in Registered
         THEN pipe' = [pipe EXCEPT !.typecast.pc = "convert", !.typed = o.kind]
         ELSE pipe' = [pipe EXCEPT
                          !.typecast = Goroutine("send", Failure("no kind is registered")),
                          !.typecasted = IF pipe.typecast.msg.ref
                                         THEN Append(@, o) ELSE @]
   /\ UNCHANGED generatorVars

\* typecast: FromUnstructured(unstructuredObject.Object, typed)
TypecastConvert ==
   /\ pipe.typecast.pc = "convert"
   /\ LET o == Deref(pipe, pipe.typecast.msg)
          typed == [o EXCEPT !.kind = pipe.typed]
      IN pipe' = [pipe EXCEPT
                     !.typecast = Goroutine("send", Object(typed)),
                     !.typecasted = IF pipe.typecast.msg.ref
                                    THEN Append(@, typed) ELSE @]
   /\ UNCHANGED generatorVars

\* convertinternal, from the receive to the send
convertReceive(p, m) ==
   IF m.err # "" \/ m.obj[1].version \in {"", "__internal"}
   THEN [p EXCEPT !.convertinternal = Goroutine("send", m)]
   ELSE [p EXCEPT !.convertinternal =
                     Goroutine("send", Object([m.obj[1] EXCEPT !.version = "__internal"]))]

\* out <- of typecast, received by convertinternal
TypecastSend ==
   /\ pipe.typecast.pc = "send"
   /\ pipe.convertinternal.pc = "recv"
   /\ pipe' = convertReceive([pipe EXCEPT !.typecast = Goroutine("recv", Nothing)],
                             pipe.typecast.msg)
   /\ UNCHANGED generatorVars

TypecastEnd ==
   /\ pipe.typecast.pc = "recv"
   /\ pipe.closed["flatten"]
   /\ pipe' = [pipe EXCEPT !.typecast = Goroutine("done", Nothing), !.closed["typecast"] = TRUE]
   /\ UNCHANGED generatorVars

\* filterEvents, from the receive to the send or to the next receive; the
\* filters of Run: the user of the event is a.User, a.Namespace is empty
filterReceive(p, m) ==
   IF m.err # "" THEN [p EXCEPT !.filterEvents = Goroutine("send", m)]
   ELSE IF m.obj[1].kind # "Event"
   THEN [p EXCEPT !.filterEvents = Goroutine("send", Failure("expected *audit.Event"))]
   ELSE IF m.obj[1].user = User
   THEN [p EXCEPT !.filterEvents = Goroutine("send", m)]
   ELSE [p EXCEPT !.filterEvents = Goroutine("recv", Nothing)]

\* out <- of convertinternal, received by filterEvents
ConvertSend ==
   /\ pipe.convertinternal.pc = "send"
   /\ pipe.filterEvents.pc = "recv"
   /\ pipe' = filterReceive([pipe EXCEPT !.convertinternal = Goroutine("recv", Nothing)],
                            pipe.convertinternal.msg)
   /\ UNCHANGED generatorVars

ConvertEnd ==
   /\ pipe.convertinternal.pc = "recv"
   /\ pipe.closed["typecast"]
   /\ pipe' = [pipe EXCEPT !.convertinternal = Goroutine("done", Nothing),
                           !.closed["convertinternal"] = TRUE]
   /\ UNCHANGED generatorVars

\* out <- of filterEvents, received by the loop of Run (lines 269-281)
FilterSend ==
   /\ pipe.filterEvents.pc = "send"
   /\ pipe.run = "recv"
   /\ LET m == pipe.filterEvents.msg
      IN pipe' = [pipe EXCEPT
                     !.filterEvents = Goroutine("recv", Nothing),
                     !.hasErrors = IF m.err # "" THEN TRUE ELSE @,
                     !.loaded = IF m.err # "" THEN @ ELSE Append(@, m.obj[1])]
   /\ UNCHANGED generatorVars

FilterEnd ==
   /\ pipe.filterEvents.pc = "recv"
   /\ pipe.closed["convertinternal"]
   /\ pipe' = [pipe EXCEPT !.filterEvents = Goroutine("done", Nothing),
                           !.closed["filterEvents"] = TRUE]
   /\ UNCHANGED generatorVars

\* the range over results in Run ends
RunEnd ==
   /\ pipe.run = "recv"
   /\ pipe.closed["filterEvents"]
   /\ pipe' = [pipe EXCEPT !.run = "done"]
   /\ UNCHANGED generatorVars

NextPipeline ==
   \/ \E r \in 1..Len(pipe.reader) : Decode(r)
   \/ \E r \in 1..Len(pipe.reader) : StreamSend(r)
   \/ CloseStream
   \/ FlattenItem \/ FlattenSend \/ FlattenEnd
   \/ TypecastNew \/ TypecastConvert \/ TypecastSend \/ TypecastEnd
   \/ ConvertSend \/ ConvertEnd
   \/ FilterSend \/ FilterEnd
   \/ RunEnd

(***************************************************************************)
(* Run of cmd/audit2rbac: the events are converted to attempts, and the    *)
(* generator is made for them.  A nil pointer is the empty list, a pointer *)
(* the list of what it points to.                                          *)
(***************************************************************************)
\* the generator is handed its attempts by a caller other than Run
NoRun == results = <<>> /\ attributes = <<>> /\ pipe = NoPipeline

eventToAttributes(event) ==
   LET eventUser == IF event.ImpersonatedUser # <<>> THEN event.ImpersonatedUser[1]
                    ELSE event.User
       attrs == [Verb |-> event.Verb, Path |-> event.RequestURI,
                 User |-> [Name |-> eventUser.Username, Groups |-> eventUser.Groups],
                 ResourceRequest |-> FALSE, Namespace |-> "", Name |-> "", Resource |-> "",
                 Subresource |-> "", APIGroup |-> "", APIVersion |-> ""]
   IN IF event.ObjectRef # <<>>
      THEN [attrs EXCEPT !.ResourceRequest = TRUE,
                         !.Namespace = event.ObjectRef[1].Namespace,
                         !.Name = event.ObjectRef[1].Name,
                         !.Resource = event.ObjectRef[1].Resource,
                         !.Subresource = event.ObjectRef[1].Subresource,
                         !.APIGroup = event.ObjectRef[1].APIGroup,
                         !.APIVersion = event.ObjectRef[1].APIVersion]
      ELSE attrs

\* getDiscoveryRoles, with two of its URLs and the group of the users here
getDiscoveryRoles ==
   [Roles |-> <<>>, RoleBindings |-> <<>>,
    ClusterRoles |-> <<
       [Name |-> "system:discovery", Namespace |-> "", Labels |-> <<>>, Annotations |-> <<>>,
        Rules |-> <<PolicyRule(<<"get">>, <<>>, <<>>, <<>>, <<"/healthz", "/api*">>)>>]>>,
    ClusterRoleBindings |-> <<
       [Name |-> "system:discovery", Namespace |-> "", Labels |-> <<>>, Annotations |-> <<>>,
        RoleRef |-> [APIGroup |-> GroupName, Kind |-> "ClusterRole", Name |-> "system:discovery"],
        Subjects |-> <<[Kind |-> "Group", APIGroup |-> GroupName,
                        Name |-> "system:authenticated", Namespace |-> ""]>>]>>]

\* one pass of the loop over results
LoadEvent ==
   /\ pc = "load"
   /\ Len(attributes) < Len(results)
   /\ attributes' = Append(attributes, eventToAttributes(results[Len(attributes) + 1]))
   /\ UNCHANGED <<attempts, existing, requests, Options, generated, generatedGetter,
                  clusterRole, clusterRoleBinding, namespacedRole, namespacedRoleBinding,
                  pc, i, appended, raw, results, failed, pipe>>

\* len(attributes) == 0: Run returns the error "No audit events matched user"
NoEventsMatched ==
   /\ pc = "load"
   /\ Len(attributes) = Len(results)
   /\ Len(attributes) = 0
   /\ pc' = "error"
   /\ UNCHANGED <<attempts, existing, requests, Options, generated, generatedGetter,
                  clusterRole, clusterRoleBinding, namespacedRole, namespacedRoleBinding,
                  i, appended, raw, results, attributes, failed, pipe>>

\* pkg.NewGenerator(getDiscoveryRoles(), attributes, opts), Generate entered
RunGenerate ==
   /\ pc = "load"
   /\ Len(attributes) = Len(results)
   /\ Len(attributes) # 0
   /\ attempts' = attributes
   /\ existing' = getDiscoveryRoles
   /\ requests' = attributes
   /\ generated' = NoObjects
   /\ generatedGetter' = StaticRoles(NoObjects)
   /\ clusterRole' = 0
   /\ clusterRoleBinding' = 0
   /\ namespacedRole' = <<>>
   /\ namespacedRoleBinding' = <<>>
   /\ pc' = "sort"
   /\ i' = 1
   /\ appended' = <<>>
   /\ raw' = NoObjects
   /\ failed' = {}
   /\ UNCHANGED <<Options, results, attributes, pipe>>

NextRun == LoadEvent \/ NoEventsMatched \/ RunGenerate \/ Next

(***************************************************************************)
(* The inputs.                                                             *)
(***************************************************************************)
bob == [Name |-> "bob", Groups |-> <<"system:authenticated">>]

sa1 == [Name |-> "system:serviceaccount:ns1:sa1", Groups |-> <<"system:authenticated">>]

\* a username with the service account prefix and no name after the namespace
half == [Name |-> "system:serviceaccount:ns1", Groups |-> <<"system:authenticated">>]

NonResourceAttempt(user, verb, path) ==
   [User |-> user, Verb |-> verb, Namespace |-> "", APIGroup |-> "", APIVersion |-> "",
    Resource |-> "", Subresource |-> "", Name |-> "", ResourceRequest |-> FALSE, Path |-> path]

ResourceAttempt(user, verb, namespace, resource, subresource, name) ==
   [User |-> user, Verb |-> verb, Namespace |-> namespace, APIGroup |-> "", APIVersion |-> "v1",
    Resource |-> resource, Subresource |-> subresource, Name |-> name,
    ResourceRequest |-> TRUE, Path |-> ""]

\* the existing policy of TestProcessOptions, with two of its URLs
TestPolicy ==
   [Roles |-> <<>>, RoleBindings |-> <<>>,
    ClusterRoles |-> <<
       [Name |-> "cluster-admin", Namespace |-> "", Labels |-> <<>>, Annotations |-> <<>>,
        Rules |-> <<PolicyRule(<<"*">>, <<"*">>, <<"*">>, <<>>, <<>>),
                    PolicyRule(<<"*">>, <<>>, <<>>, <<>>, <<"*">>)>>],
       [Name |-> "system:discovery", Namespace |-> "", Labels |-> <<>>, Annotations |-> <<>>,
        Rules |-> <<PolicyRule(<<"get">>, <<>>, <<>>, <<>>, <<"/api", "/api/*">>)>>]>>,
    ClusterRoleBindings |-> <<
       [Name |-> "cluster-admin", Namespace |-> "", Labels |-> <<>>, Annotations |-> <<>>,
        RoleRef |-> [APIGroup |-> GroupName, Kind |-> "ClusterRole", Name |-> "cluster-admin"],
        Subjects |-> <<[Kind |-> "Group", APIGroup |-> GroupName, Name |-> "system:masters",
                        Namespace |-> ""]>>],
       [Name |-> "system:discovery", Namespace |-> "", Labels |-> <<>>, Annotations |-> <<>>,
        RoleRef |-> [APIGroup |-> GroupName, Kind |-> "ClusterRole", Name |-> "system:discovery"],
        Subjects |-> <<[Kind |-> "Group", APIGroup |-> GroupName,
                        Name |-> "system:authenticated", Namespace |-> ""]>>]>>]

\* a policy that lets the service account sa1 of ns1 read the pods of ns2
NamespacePolicy ==
   [Roles |-> <<
       [Name |-> "pod-reader", Namespace |-> "ns2", Labels |-> <<>>, Annotations |-> <<>>,
        Rules |-> <<PolicyRule(<<"get", "list">>, <<"">>, <<"pods">>, <<>>, <<>>)>>]>>,
    RoleBindings |-> <<
       [Name |-> "pod-reader", Namespace |-> "ns2", Labels |-> <<>>, Annotations |-> <<>>,
        RoleRef |-> [APIGroup |-> GroupName, Kind |-> "Role", Name |-> "pod-reader"],
        Subjects |-> <<[Kind |-> "ServiceAccount", APIGroup |-> "", Name |-> "sa1",
                        Namespace |-> "ns1"]>>]>>,
    ClusterRoles |-> <<>>, ClusterRoleBindings |-> <<>>]

\* who made the requests, and the policy that exists
Scenarios ==
   {[user |-> bob, existing |-> TestPolicy], [user |-> sa1, existing |-> NamespacePolicy],
    [user |-> half, existing |-> NoObjects]}

\* the attempts a list under Spec is made of
Attempts(user) ==
   {NonResourceAttempt(user, "get", "/foo"),
    NonResourceAttempt(user, "get", "/api"),
    ResourceAttempt(user, "get", "", "pods", "", "p1"),
    ResourceAttempt(user, "get", "ns1", "pods", "", ""),
    ResourceAttempt(user, "get", "ns2", "pods", "", ""),
    ResourceAttempt(user, "get", "ns1", "pods", "", "p1"),
    ResourceAttempt(user, "get", "ns2", "pods", "", "p1"),
    ResourceAttempt(user, "get", "ns1", "pods", "", "p2"),
    ResourceAttempt(user, "get", "ns1", "configmaps", "", "p1"),
    ResourceAttempt(user, "update", "ns1", "pods", "status", "p1")}

\* the lists of at most n members of S
Lists(S, n) == UNION {[1..k -> S] : k \in 0..n}

Init ==
   \E s \in Scenarios, names \in BOOLEAN, namespaces \in BOOLEAN :
      \E list \in Lists(Attempts(s.user), MaxLen) :
         NewGenerator(s.existing, list, GenerateOptions(names, namespaces)) /\ NoRun

Spec == Init /\ [][Next]_vars

\* the attempts a list under SpecNames is made of: reads of two pods of one
\* namespace by name
NameAttempts ==
   {NonResourceAttempt(bob, "get", "/foo"),
    ResourceAttempt(bob, "watch", "ns1", "pods", "", "p1"),
    ResourceAttempt(bob, "watch", "ns1", "pods", "", "p2"),
    ResourceAttempt(bob, "list", "ns1", "pods", "", "p1"),
    ResourceAttempt(bob, "list", "ns1", "pods", "", "p2"),
    ResourceAttempt(bob, "get", "ns1", "pods", "", "p1"),
    ResourceAttempt(bob, "get", "ns1", "pods", "", "p2")}

InitNames ==
   \E names \in BOOLEAN, namespaces \in BOOLEAN :
      \E list \in Lists(NameAttempts, MaxLenNames) :
         NewGenerator(NoObjects, list, GenerateOptions(names, namespaces)) /\ NoRun

SpecNames == InitNames /\ [][Next]_vars

\* the attempts a list under SpecList is made of: a list of all pods and
\* reads of single pods and of the pods of a namespace
ListAttempts(user) ==
   {NonResourceAttempt(user, "get", "/foo"),
    ResourceAttempt(user, "list", "", "pods", "", ""),
    ResourceAttempt(user, "list", "", "configmaps", "", ""),
    ResourceAttempt(user, "get", "", "pods", "", "p1"),
    ResourceAttempt(user, "get", "ns1", "pods", "", ""),
    ResourceAttempt(user, "get", "ns1", "pods", "", "p1"),
    ResourceAttempt(user, "get", "ns2", "pods", "", "p2"),
    ResourceAttempt(user, "get", "ns1", "configmaps", "", "p1"),
    ResourceAttempt(user, "watch", "ns1", "pods", "", "p1"),
    ResourceAttempt(user, "list", "ns1", "pods", "", "p2")}

\* name expansion is off
InitList ==
   \E s \in Scenarios, namespaces \in BOOLEAN :
      \E list \in Lists(ListAttempts(s.user), MaxLenList) :
         NewGenerator(s.existing, list, GenerateOptions(FALSE, namespaces)) /\ NoRun

SpecList == InitList /\ [][Next]_vars

\* the attempts a list under SpecRule is made of: every verb of the expansion
\* table and one outside it, with and without subresource and name
RuleAttempts ==
   {ResourceAttempt(bob, verb, "ns1", "pods", subresource, name) :
       verb \in {"get", "list", "watch", "update", "patch", "delete"},
       subresource \in {"", "status"}, name \in {"", "p1"}}

InitRule ==
   \E names \in BOOLEAN, namespaces \in BOOLEAN :
      \E list \in Lists(RuleAttempts, MaxLenRule) :
         NewGenerator(NoObjects, list, GenerateOptions(names, namespaces)) /\ NoRun

SpecRule == InitRule /\ [][Next]_vars

\* an audit event, with no reference to an object
Event(verb, user, impersonated, uri) ==
   [Verb |-> verb, RequestURI |-> uri,
    User |-> [Username |-> user.Name, Groups |-> user.Groups],
    ImpersonatedUser |-> impersonated, ObjectRef |-> <<>>]

\* an audit event that refers to an object
ObjectEvent(verb, user, namespace, resource, name, uri) ==
   [Event(verb, user, <<>>, uri) EXCEPT
      !.ObjectRef = <<[Resource |-> resource, Namespace |-> namespace, Name |-> name,
                       APIGroup |-> "", APIVersion |-> "v1", Subresource |-> ""]>>]

\* the events a run under SpecRun loads: a create refused before its body was
\* read, the same create let through, reads, and a request under impersonation
Events ==
   {Event("get", bob, <<>>, "/foo"),
    Event("get", [Name |-> "admin", Groups |-> <<"system:masters">>],
          <<[Username |-> bob.Name, Groups |-> bob.Groups]>>, "/api"),
    ObjectEvent("create", bob, "ns1", "pods", "", "/api/v1/namespaces/ns1/pods"),
    ObjectEvent("create", bob, "ns1", "pods", "p1", "/api/v1/namespaces/ns1/pods"),
    ObjectEvent("get", bob, "ns1", "pods", "p1", "/api/v1/namespaces/ns1/pods/p1"),
    ObjectEvent("get", bob, "ns2", "pods", "p1", "/api/v1/namespaces/ns2/pods/p1")}

\* Run before the first event is read; no generator is made yet
InitRun ==
   \E names \in BOOLEAN, namespaces \in BOOLEAN :
      \E list \in Lists(Events, MaxEvents) :
         /\ results = list
         /\ attributes = <<>>
         /\ pc = "load"
         /\ Options = GenerateOptions(names, namespaces)
         /\ attempts = <<>> /\ requests = <<>>
         /\ existing = NoObjects /\ generated = NoObjects /\ raw = NoObjects
         /\ generatedGetter = StaticRoles(NoObjects)
         /\ clusterRole = 0 /\ clusterRoleBinding = 0
         /\ namespacedRole = <<>> /\ namespacedRoleBinding = <<>>
         /\ i = 1 /\ appended = <<>>
         /\ failed = {}
         /\ pipe = NoPipeline

SpecRun == InitRun /\ [][NextRun]_vars

\* the attempts a list under SpecCompact is made of: reads of two pods and
\* two configmaps of one namespace by name
CompactAttempts ==
   {ResourceAttempt(bob, "get", "ns1", "pods", "", "p1"),
    ResourceAttempt(bob, "get", "ns1", "pods", "", "p2"),
    ResourceAttempt(bob, "get", "ns1", "configmaps", "", "p1"),
    ResourceAttempt(bob, "get", "ns1", "configmaps", "", "p2"),
    NonResourceAttempt(bob, "get", "/foo")}

InitCompact ==
   \E names \in BOOLEAN, namespaces \in BOOLEAN :
      \E list \in Lists(CompactAttempts, MaxLenCompact) :
         NewGenerator(NoObjects, list, GenerateOptions(names, namespaces)) /\ NoRun

SpecCompact == InitCompact /\ [][Next]_vars

\* an existing policy with bindings whose roles are missing: every check of a
\* request of bob against it meets an error; it lets bob get the pod p1
DanglingPolicy ==
   [Roles |-> <<>>,
    RoleBindings |-> <<
       [Name |-> "dangling", Namespace |-> "ns1", Labels |-> <<>>, Annotations |-> <<>>,
        RoleRef |-> [APIGroup |-> GroupName, Kind |-> "Role", Name |-> "missing"],
        Subjects |-> <<[Kind |-> "User", APIGroup |-> GroupName, Name |-> "bob",
                        Namespace |-> ""]>>]>>,
    ClusterRoles |-> <<
       [Name |-> "p1-reader", Namespace |-> "", Labels |-> <<>>, Annotations |-> <<>>,
        Rules |-> <<PolicyRule(<<"get">>, <<"">>, <<"pods">>, <<"p1">>, <<>>)>>]>>,
    ClusterRoleBindings |-> <<
       [Name |-> "dangling", Namespace |-> "", Labels |-> <<>>, Annotations |-> <<>>,
        RoleRef |-> [APIGroup |-> GroupName, Kind |-> "ClusterRole", Name |-> "missing"],
        Subjects |-> <<[Kind |-> "Group", APIGroup |-> GroupName,
                        Name |-> "system:authenticated", Namespace |-> ""]>>],
       [Name |-> "p1-reader", Namespace |-> "", Labels |-> <<>>, Annotations |-> <<>>,
        RoleRef |-> [APIGroup |-> GroupName, Kind |-> "ClusterRole", Name |-> "p1-reader"],
        Subjects |-> <<[Kind |-> "User", APIGroup |-> GroupName, Name |-> "bob",
                        Namespace |-> ""]>>]>>]

\* the attempts a list under SpecFailure is made of
FailureAttempts ==
   {NonResourceAttempt(bob, "get", "/foo"),
    ResourceAttempt(bob, "get", "ns1", "pods", "", "p1"),
    ResourceAttempt(bob, "get", "ns1", "pods", "", "p2"),
    ResourceAttempt(bob, "get", "ns2", "pods", "", "p2"),
    ResourceAttempt(bob, "watch", "ns1", "pods", "", "p1"),
    ResourceAttempt(bob, "list", "", "pods", "", "")}

InitFailure ==
   \E names \in BOOLEAN, namespaces \in BOOLEAN :
      \E list \in Lists(FailureAttempts, MaxLenFailure) :
         NewGenerator(DanglingPolicy, list, GenerateOptions(names, namespaces)) /\ NoRun

SpecFailure == InitFailure /\ [][Next]_vars

\* the lists of SpecCompact, with a compaction that can fail
SpecFallback == InitCompact /\ [][NextFallback]_vars

\* a document of an audit source
Document(kind, name, user, items) ==
   [kind |-> kind, version |-> "v1", name |-> name, user |-> user, items |-> items]

\* the documents a source under SpecPipeline is made of: events of the user
\* and of another, a List of two events, an object of a kind that is not
\* registered, and a document that fails to decode
Documents ==
   {Document("Event", "e1", "bob", <<>>),
    Document("Event", "e2", "alice", <<>>),
    Document("List", "", "",
             <<Document("Event", "i1", "bob", <<>>), Document("Event", "i2", "bob", <<>>)>>),
    Document("Pod", "p1", "", <<>>),
    Document("", "", "", <<>>)}

\* the sources: JSON or YAML, with at most MaxDocuments documents
Sources ==
   {[format |-> format, docs |-> docs] :
       format \in {"json", "yaml"}, docs \in Lists(Documents, MaxDocuments)}

\* Run has started the pipeline; no generator is made yet
InitPipeline ==
   \E sources \in Lists(Sources, MaxSources) :
      /\ pipe = StartedPipeline(sources)
      /\ results = <<>> /\ attributes = <<>>
      /\ pc = "load"
      /\ Options = GenerateOptions(TRUE, TRUE)
      /\ attempts = <<>> /\ requests = <<>>
      /\ existing = NoObjects /\ generated = NoObjects /\ raw = NoObjects
      /\ generatedGetter = StaticRoles(NoObjects)
      /\ clusterRole = 0 /\ clusterRoleBinding = 0
      /\ namespacedRole = <<>> /\ namespacedRoleBinding = <<>>
      /\ i = 1 /\ appended = <<>>
      /\ failed = {}

SpecPipeline == InitPipeline /\ [][NextPipeline]_vars

\* every goroutine that can take a step is scheduled in the end
SpecPipelineFair ==
   /\ SpecPipeline
   /\ \A r \in 1..MaxSources : WF_vars(Decode(r)) /\ WF_vars(StreamSend(r))
   /\ WF_vars(CloseStream)
   /\ WF_vars(FlattenItem) /\ WF_vars(FlattenSend) /\ WF_vars(FlattenEnd)
   /\ WF_vars(TypecastNew) /\ WF_vars(TypecastConvert) /\ WF_vars(TypecastSend)
   /\ WF_vars(TypecastEnd)
   /\ WF_vars(ConvertSend) /\ WF_vars(ConvertEnd)
   /\ WF_vars(FilterSend) /\ WF_vars(FilterEnd)
   /\ WF_vars(RunEnd)

(***************************************************************************)
(* What the claims speak of.                                               *)
(***************************************************************************)
\* the policy that holds the objects of both
UnionObjects(a, b) ==
   [Roles |-> a.Roles \o b.Roles, RoleBindings |-> a.RoleBindings \o b.RoleBindings,
    ClusterRoles |-> a.ClusterRoles \o b.ClusterRoles,
    ClusterRoleBindings |-> a.ClusterRoleBindings \o b.ClusterRoleBindings]

\* the roles of a set of objects in the order the compaction visits them
RolesOf(objects) == objects.ClusterRoles \o objects.Roles

\* how many roles the compaction has been through
Compacted ==
   IF pc = "done" THEN Len(RolesOf(generated))
   ELSE IF pc = "compact" THEN i - 1
   ELSE 0

\* some rule of the list allows the request
RulesAllow(rules, request) == \E rule \in Range(rules) : RuleAllows(request, rule)

\* requests to tell two rule lists apart
Probes ==
   {ResourceAttempt(bob, verb, "", resource, subresource, name) :
       verb \in {"get", "list", "watch", "update", "patch"},
       resource \in {"pods", "configmaps"}, subresource \in {"", "status"},
       name \in {"", "p1", "p2"}}
   \cup {NonResourceAttempt(bob, "get", path) : path \in {"/foo", "/api"}}

\* C1: when Generate has returned, every attempt of the input is allowed by
\* the existing policy together with the returned objects
C1_Soundness ==
   pc = "done" =>
      \A k \in 1..Len(attempts) : Allowed(UnionObjects(existing, generated), attempts[k])

\* C2: a request is allowed by the rules a role had before compactRules if
\* and only if it is allowed by the rules compactRules returned for it
C2_CompactionPreservesSemantics ==
   \A j \in 1..Compacted :
      \A request \in Probes :
         RulesAllow(RolesOf(raw)[j].Rules, request)
            <=> RulesAllow(RolesOf(generated)[j].Rules, request)

\* C3: the rules Generate returns for a role are the rules it returns for
\* every order in which the primitive compaction may hand over its rules;
\* all that precedes the compaction is a function of the inputs
C3_Deterministic ==
   \A j \in 1..Compacted :
      \A order \in Orderings(simpleResources(breakdownRules(RolesOf(raw)[j].Rules))) :
         compactRules(RolesOf(raw)[j].Rules, order) = RolesOf(generated)[j].Rules

\* every attempt of the input is allowed by the existing policy
AllAllowedByExisting == \A k \in 1..Len(attempts) : Allowed(existing, attempts[k])

\* C4: if the existing policy allows every attempt of the input, Generate
\* returns four empty lists
C4_SkipIfExisting == (pc = "done" /\ AllAllowedByExisting) => generated = NoObjects

C4_Witness ==
   /\ pc = "done" /\ Len(attempts) >= 2 /\ AllAllowedByExisting
   /\ \E k \in 1..Len(attempts) : attempts[k].ResourceRequest

\* the bindings among bs that are named as the role and lie in its namespace
BindingsOf(role, bs) ==
   {b \in 1..Len(bs) : bs[b].Name = role.Name /\ bs[b].Namespace = role.Namespace}

\* C5: in every state, each generated Role has exactly one RoleBinding of its
\* name and namespace, which refers to it as a Role, each generated ClusterRole
\* exactly one ClusterRoleBinding of its name, which refers to it as a
\* ClusterRole, and every binding has its role
C5_Pairing ==
   /\ \A r \in 1..Len(generated.Roles) :
         LET bs == BindingsOf(generated.Roles[r], generated.RoleBindings)
         IN /\ Cardinality(bs) = 1
            /\ \A b \in bs :
                  /\ generated.RoleBindings[b].RoleRef.Kind = "Role"
                  /\ generated.RoleBindings[b].RoleRef.Name = generated.Roles[r].Name
   /\ \A r \in 1..Len(generated.ClusterRoles) :
         LET bs == BindingsOf(generated.ClusterRoles[r], generated.ClusterRoleBindings)
         IN /\ Cardinality(bs) = 1
            /\ \A b \in bs :
                  /\ generated.ClusterRoleBindings[b].RoleRef.Kind = "ClusterRole"
                  /\ generated.ClusterRoleBindings[b].RoleRef.Name = generated.ClusterRoles[r].Name
   /\ \A b \in 1..Len(generated.RoleBindings) :
         \E r \in 1..Len(generated.Roles) :
            b \in BindingsOf(generated.Roles[r], generated.RoleBindings)
   /\ \A b \in 1..Len(generated.ClusterRoleBindings) :
         \E r \in 1..Len(generated.ClusterRoles) :
            b \in BindingsOf(generated.ClusterRoles[r], generated.ClusterRoleBindings)

C5_Witness ==
   pc = "requests" /\ Len(generated.Roles) = 2 /\ Len(generated.ClusterRoles) = 1

\* the subject a binding must name for the user of the attempts
TargetSubject(user) ==
   IF user.Name = "system:serviceaccount:ns1:sa1"
   THEN [Kind |-> "ServiceAccount", APIGroup |-> "", Name |-> "sa1", Namespace |-> "ns1"]
   ELSE [Kind |-> "User", APIGroup |-> GroupName, Name |-> user.Name, Namespace |-> ""]

\* C6: every generated binding lists one subject, the service account or the
\* user the attempts were made by, and never one of the user's groups
C6_Subject ==
   \A binding \in Range(generated.RoleBindings) \cup Range(generated.ClusterRoleBindings) :
      /\ Len(binding.Subjects) = 1
      /\ binding.Subjects[1] = TargetSubject(attempts[1].User)
      /\ binding.Subjects[1].Kind # "Group"
      /\ binding.Subjects[1].Name \notin Range(attempts[1].User.Groups)

C6_Witness ==
   /\ \E binding \in Range(generated.RoleBindings) : binding.Subjects[1].Kind = "ServiceAccount"
   /\ \E binding \in Range(generated.ClusterRoleBindings) :
         binding.Subjects[1].Kind = "ServiceAccount"

\* two resource attempts by the same user for the same verb on the same
\* resource, with the same name and the same namespace where asked
SameOperation(a, b, sameName, sameNamespace) ==
   /\ a.ResourceRequest /\ b.ResourceRequest
   /\ a.User = b.User /\ a.Verb = b.Verb /\ a.APIGroup = b.APIGroup
   /\ a.APIVersion = b.APIVersion /\ a.Resource = b.Resource
   /\ a.Subresource = b.Subresource
   /\ (sameName => a.Name = b.Name)
   /\ (sameNamespace => a.Namespace = b.Namespace)

\* the rule grants the verb of the attempt on its resource, whatever the name
GrantsAnyName(rule, a) ==
   /\ rule.ResourceNames = <<>>
   /\ a.Verb \in Range(rule.Verbs)
   /\ a.APIGroup \in Range(rule.APIGroups)
   /\ CombinedResource(a) \in Range(rule.Resources)

\* the input holds another attempt for the operation of a under another name
SeenUnderAnotherName(a) ==
   /\ a.ResourceRequest /\ a.Name # ""
   /\ \E k \in 1..Len(attempts) :
         /\ SameOperation(attempts[k], a, FALSE,
                          ~Options.ExpandMultipleNamespacesToClusterScoped)
         /\ attempts[k].Name # "" /\ attempts[k].Name # a.Name

\* C7: with name expansion on, if the input holds an operation
\* under two names and the existing policy allows neither attempt, the
\* returned objects hold a rule that grants it on any name
C7_NameExpansion ==
   (pc = "done" /\ Options.ExpandMultipleNamesToUnnamed) =>
      \A k \in 1..Len(attempts) :
         (SeenUnderAnotherName(attempts[k])
          /\ \A l \in 1..Len(attempts) :
                SameOperation(attempts[l], attempts[k], FALSE,
                              ~Options.ExpandMultipleNamespacesToClusterScoped)
                   => ~Allowed(existing, attempts[l]))
         => \E role \in Range(RolesOf(generated)) :
               \E rule \in Range(role.Rules) : GrantsAnyName(rule, attempts[k])

\* the input holds another attempt for the operation of a in another namespace
SeenInAnotherNamespace(a) ==
   /\ a.ResourceRequest /\ a.Namespace # ""
   /\ \E k \in 1..Len(attempts) :
         /\ SameOperation(attempts[k], a, ~Options.ExpandMultipleNamesToUnnamed, FALSE)
         /\ attempts[k].Namespace # "" /\ attempts[k].Namespace # a.Namespace

\* C8: with namespace expansion on, every rule appended for an attempt whose
\* operation the input also holds in another namespace is appended to the
\* ClusterRole, whose rules before compaction hold it
C8_NamespaceExpansion ==
   Options.ExpandMultipleNamespacesToClusterScoped =>
      \A e \in Range(appended) :
         SeenInAnotherNamespace(e.request) =>
            /\ e.kind = "ClusterRole"
            /\ pc = "requests" => e.rule \in Range(generated.ClusterRoles[1].Rules)
            /\ pc # "requests" => e.rule \in Range(raw.ClusterRoles[1].Rules)

C8_Witness ==
   /\ Options.ExpandMultipleNamespacesToClusterScoped
   /\ \E e \in Range(appended) : SeenInAnotherNamespace(e.request) /\ e.kind = "ClusterRole"

\* the input holds an attempt with that name on that resource, for the verb
\* or, if expanded is TRUE, for a verb the options expand to it
Observed(verb, group, resource, name, expanded) ==
   \E k \in 1..Len(attempts) :
      /\ attempts[k].ResourceRequest
      /\ attempts[k].APIGroup = group
      /\ CombinedResource(attempts[k]) = resource
      /\ attempts[k].Name = name
      /\ \/ attempts[k].Verb = verb
         \/ expanded /\ verb \in Range(VerbExpansion(Options, attempts[k].Verb))

\* with both flags off, the names of the returned rules were observed, and
\* the namespaces of the returned roles
NamesObserved(expanded) ==
   (/\ pc = "done"
    /\ ~Options.ExpandMultipleNamesToUnnamed
    /\ ~Options.ExpandMultipleNamespacesToClusterScoped) =>
      /\ \A role \in Range(RolesOf(generated)) :
            \A rule \in Range(role.Rules) :
               \A verb \in Range(rule.Verbs), group \in Range(rule.APIGroups),
                  resource \in Range(rule.Resources), name \in Range(rule.ResourceNames) :
                  Observed(verb, group, resource, name, expanded)
      /\ \A role \in Range(generated.Roles) :
            \E k \in 1..Len(attempts) : attempts[k].Namespace = role.Namespace

\* C9 as claimed: with both flags off, every name of a returned rule was
\* observed with each verb of the rule on each resource of the rule, and
\* every returned Role lies in the namespace of an attempt
C9_NoOverBroadeningSameVerb == NamesObserved(FALSE)

\* C9 as amended: ... was observed with a verb that is, or that the verb
\* expansions expand to, each verb of the rule ...
C9_NoOverBroadening == NamesObserved(TRUE)

C9_Witness ==
   /\ pc = "done"
   /\ ~Options.ExpandMultipleNamesToUnnamed
   /\ ~Options.ExpandMultipleNamespacesToClusterScoped
   /\ \E role \in Range(generated.Roles) :
         /\ \E rule \in Range(role.Rules) : Len(rule.ResourceNames) = 2
         /\ \E rule \in Range(role.Rules) : Len(rule.ResourceNames) = 1 /\ Len(rule.Verbs) = 3

\* the name and the namespace a rule was appended under are those of its request
KeepsName(e) ==
   e.rule.ResourceNames = IF e.request.Name = "" THEN <<>> ELSE <<e.request.Name>>

KeepsNamespace(e) ==
   IF e.request.Namespace = "" THEN e.kind = "ClusterRole"
   ELSE e.kind = "Role" /\ e.namespace = e.request.Namespace

\* C10: with name expansion off every rule is appended under the name of its
\* request, and a returned rule without names stems from an attempt without
\* name that the existing policy did not allow; with namespace expansion off
\* every rule is appended to the role of the namespace of its request, and the
\* returned ClusterRole holds only what attempts without namespace asked for
C10_FlagsIndependent ==
   /\ ~Options.ExpandMultipleNamesToUnnamed =>
         /\ \A e \in Range(appended) : e.request.ResourceRequest => KeepsName(e)
         /\ pc = "done" =>
               \A role \in Range(RolesOf(generated)) :
                  \A rule \in Range(role.Rules) :
                     (rule.Resources # <<>> /\ rule.ResourceNames = <<>>) =>
                        \A resource \in Range(rule.Resources) :
                           \E k \in 1..Len(attempts) :
                              /\ attempts[k].ResourceRequest
                              /\ attempts[k].Name = ""
                              /\ ~Allowed(existing, attempts[k])
                              /\ attempts[k].APIGroup \in Range(rule.APIGroups)
                              /\ CombinedResource(attempts[k]) = resource
   /\ ~Options.ExpandMultipleNamespacesToClusterScoped =>
         /\ \A e \in Range(appended) : e.request.ResourceRequest => KeepsNamespace(e)
         /\ pc = "done" =>
               \A role \in Range(generated.ClusterRoles) :
                  \A rule \in Range(role.Rules) :
                     /\ \A verb \in Range(rule.Verbs), url \in Range(rule.NonResourceURLs) :
                           \E k \in 1..Len(attempts) :
                              /\ ~attempts[k].ResourceRequest
                              /\ attempts[k].Verb = verb /\ attempts[k].Path = url
                     /\ \A verb \in Range(rule.Verbs), group \in Range(rule.APIGroups),
                           resource \in Range(rule.Resources) :
                           \E k \in 1..Len(attempts) :
                              /\ attempts[k].ResourceRequest
                              /\ attempts[k].Namespace = ""
                              /\ attempts[k].APIGroup = group
                              /\ CombinedResource(attempts[k]) = resource
                              /\ \/ attempts[k].Verb = verb
                                 \/ verb \in Range(VerbExpansion(Options, attempts[k].Verb))

\* one name seen in two namespaces, with name expansion off and namespace
\* expansion on: a rule of the ClusterRole restricted to that name
C10_Witness ==
   /\ pc = "done"
   /\ ~Options.ExpandMultipleNamesToUnnamed
   /\ Options.ExpandMultipleNamespacesToClusterScoped
   /\ \E e \in Range(appended) :
         /\ SeenInAnotherNamespace(e.request)
         /\ e.request.Name # ""
         /\ e.kind = "ClusterRole"
   /\ \E role \in Range(generated.ClusterRoles) :
         \E rule \in Range(role.Rules) : rule.ResourceNames = <<"p1">>

\* a is a list of all objects of a resource, in no namespace, that the
\* existing policy does not allow
UncoveredList(a) ==
   /\ a.ResourceRequest /\ a.Verb = "list" /\ a.Namespace = "" /\ a.Name = ""
   /\ ~Allowed(existing, a)

\* g is a get on the resource of a, with a name or in a namespace
GetBelow(g, a) ==
   /\ g.ResourceRequest /\ g.Verb = "get"
   /\ g.APIGroup = a.APIGroup /\ g.Resource = a.Resource /\ g.Subresource = a.Subresource
   /\ (g.Name # "" \/ g.Namespace # "")

\* where the returned roles hold a rule on the resource of a: <<role, rule>>
RulesOn(a) ==
   {p \in (1..Len(RolesOf(generated))) \X (1..MaxLenList) :
       /\ p[2] <= Len(RolesOf(generated)[p[1]].Rules)
       /\ a.APIGroup \in Range(RolesOf(generated)[p[1]].Rules[p[2]].APIGroups)
       /\ CombinedResource(a) \in Range(RolesOf(generated)[p[1]].Rules[p[2]].Resources)}

\* C11: with the default verb expansions and name expansion off, wherever in
\* the input an uncovered list of a resource in no namespace stands, no rule is
\* appended for a get on that resource with a name or a namespace, and the
\* returned objects hold one rule on the resource, {get, list, watch} without
\* names, in the ClusterRole
C11_CoveringList ==
   (Options.VerbExpansions = DefaultVerbExpansions /\ ~Options.ExpandMultipleNamesToUnnamed) =>
      \A l \in 1..Len(attempts) :
         UncoveredList(attempts[l]) =>
            /\ \A e \in Range(appended) : ~GetBelow(e.request, attempts[l])
            /\ pc = "done" =>
                  /\ Cardinality(RulesOn(attempts[l])) = 1
                  /\ \A p \in RulesOn(attempts[l]) :
                        LET rule == RolesOf(generated)[p[1]].Rules[p[2]]
                        IN /\ p[1] = 1 /\ Len(generated.ClusterRoles) = 1
                           /\ rule.Verbs = <<"get", "list", "watch">>
                           /\ rule.ResourceNames = <<>>

\* the list stands last, behind a get of one pod and a get in a namespace
C11_Witness ==
   /\ pc = "done"
   /\ Len(attempts) = 3
   /\ UncoveredList(attempts[3])
   /\ GetBelow(attempts[1], attempts[3]) /\ attempts[1].Namespace = ""
   /\ GetBelow(attempts[2], attempts[3]) /\ attempts[2].Namespace # ""
   /\ Cardinality(RulesOn(attempts[3])) = 1

\* C12: when Generate has returned, the list the caller supplied holds the
\* attempts it held at the call, in the same order; g.requests is the
\* caller's slice (NewGenerator keeps the slice it is given), attempts the
\* list as it was at the call
C12_InputsUnmodified == pc = "done" => requests = attempts

\* neither of the two attempts is less than the other
Incomparable(a, b) == ~requestLess(a, b) /\ ~requestLess(b, a)

\* the list with its members in the order of the indices o
Permuted(list, o) == [k \in 1..Len(list) |-> list[o[k]]]

\* C13: over the attempts of the input the less function of sortRequests is
\* irreflexive and transitive and its incomparability is transitive, and
\* sortRequests returns the same list for every order of the same attempts
C13_StrictWeakOrdering ==
   /\ \A a \in Range(attempts) : ~requestLess(a, a)
   /\ \A a \in Range(attempts), b \in Range(attempts), c \in Range(attempts) :
         /\ (requestLess(a, b) /\ requestLess(b, c)) => requestLess(a, c)
         /\ (Incomparable(a, b) /\ Incomparable(b, c)) => Incomparable(a, c)
   /\ pc # "sort" =>
         \A o \in Orderings(1..Len(attempts)) :
            sortRequests(Permuted(attempts, o)) = requests

\* the two resource attempts are both in a namespace or both in none
SameScope(a, b) == (a.Namespace = "") = (b.Namespace = "")

\* the two resource attempts are both named or both unnamed
SameNamedness(a, b) == (a.Name = "") = (b.Name = "")

\* C14: in the sorted list no resource request stands before a non-resource
\* request, no namespaced resource request before one without namespace, and
\* among resource requests of one scope no named one before an unnamed one
C14_SortedByClass ==
   pc # "sort" =>
      \A k \in 1..Len(requests), l \in 1..Len(requests) :
         k < l =>
            LET a == requests[k]
                b == requests[l]
            IN /\ ~(a.ResourceRequest /\ ~b.ResourceRequest)
               /\ (a.ResourceRequest /\ b.ResourceRequest) =>
                     /\ ~(a.Namespace # "" /\ b.Namespace = "")
                     /\ SameScope(a, b) => ~(a.Name # "" /\ b.Name = "")

\* the list came with a named namespaced attempt first, an unnamed attempt
\* without namespace second and a non-resource attempt last, and is sorted
C14_Witness ==
   /\ pc = "requests"
   /\ Len(attempts) = 3
   /\ attempts[1].ResourceRequest /\ attempts[1].Namespace # "" /\ attempts[1].Name # ""
   /\ attempts[2].ResourceRequest /\ attempts[2].Namespace = "" /\ attempts[2].Name = ""
   /\ ~attempts[3].ResourceRequest
   /\ requests = <<attempts[3], attempts[2], attempts[1]>>

\* C15: in the sorted list, among resource attempts of one scope and one
\* namedness, every list stands before every get
C15_ListBeforeGet ==
   pc # "sort" =>
      \A k \in 1..Len(requests), l \in 1..Len(requests) :
         (/\ requests[k].ResourceRequest /\ requests[l].ResourceRequest
          /\ SameScope(requests[k], requests[l])
          /\ SameNamedness(requests[k], requests[l])
          /\ requests[k].Verb = "list" /\ requests[l].Verb = "get") => k < l

\* the verb followed by what the table of DefaultGenerateOptions adds to it
VerbThenExpansion(verb) ==
   CASE verb = "watch" -> <<"watch", "get", "list">>
     [] verb = "list" -> <<"list", "get", "watch">>
     [] verb = "update" -> <<"update", "get", "patch">>
     [] verb = "patch" -> <<"patch", "get", "update">>
     [] OTHER -> <<verb>>

\* the same verbs in ascending order
VerbAndExpansionSorted(verb) ==
   CASE verb \in {"watch", "list"} -> <<"get", "list", "watch">>
     [] verb \in {"update", "patch"} -> <<"get", "patch", "update">>
     [] OTHER -> <<verb>>

\* the rule appended for a resource request, built from the request as
\* broadened, has the fields of the request and the verbs given
RuleBuilt(e, verbs) ==
   /\ e.rule.Verbs = verbs
   /\ e.rule.APIGroups = <<e.broadened.APIGroup>>
   /\ e.rule.Resources =
         <<IF e.broadened.Subresource = "" THEN e.broadened.Resource
           ELSE e.broadened.Resource \o "/" \o e.broadened.Subresource>>
   /\ e.rule.ResourceNames = IF e.broadened.Name = "" THEN <<>> ELSE <<e.broadened.Name>>
   /\ e.rule.NonResourceURLs = <<>>

\* C16 as claimed: the verbs of the rule are the verb of the attempt followed
\* by the expansion of the verb, its other fields those of the attempt, and
\* the attempts and the table are as they were
C16_RuleBuilderVerbFirst ==
   /\ Options.VerbExpansions = DefaultVerbExpansions
   /\ \A e \in Range(appended) :
         e.request.ResourceRequest => RuleBuilt(e, VerbThenExpansion(e.broadened.Verb))

\* C16 as amended: the verbs of the rule are the verb of the attempt and the
\* expansion of the verb in ascending order
C16_RuleBuilder ==
   /\ Options.VerbExpansions = DefaultVerbExpansions
   /\ \A k \in 1..Len(requests) : requests[k] \in Range(attempts)
   /\ \A e \in Range(appended) :
         e.request.ResourceRequest => RuleBuilt(e, VerbAndExpansionSorted(e.broadened.Verb))

C16_Witness ==
   /\ \E e \in Range(appended) :
         /\ e.request.Verb = "watch" /\ e.request.Subresource = "status" /\ e.request.Name = "p1"
         /\ RuleBuilt(e, <<"get", "list", "watch">>)
   /\ \E e \in Range(appended) :
         /\ e.request.Verb = "delete" /\ e.request.Subresource = "" /\ e.request.Name = ""
         /\ RuleBuilt(e, <<"delete">>)

\* the last rule of a list of rules is the rule
LastRuleIs(rules, rule) == rules # <<>> /\ rules[Len(rules)] = rule

\* C17: in every state there is at most one ClusterRole and at most one Role
\* for a namespace, and no Role without namespace; the rule for a
\* non-resource attempt is appended to the ClusterRole and holds the verb and
\* the path of the attempt, the rule for a resource attempt is appended to the
\* ClusterRole if the attempt as broadened has no namespace and else to the
\* Role of its namespace
C17_Placement ==
   /\ Len(generated.ClusterRoles) <= 1
   /\ \A r \in 1..Len(generated.Roles) :
         /\ generated.Roles[r].Namespace # ""
         /\ \A s \in 1..Len(generated.Roles) :
               generated.Roles[r].Namespace = generated.Roles[s].Namespace => r = s
   /\ \A e \in Range(appended) :
         /\ ~e.request.ResourceRequest =>
               /\ e.kind = "ClusterRole"
               /\ e.rule = PolicyRule(<<e.request.Verb>>, <<>>, <<>>, <<>>, <<e.request.Path>>)
         /\ e.request.ResourceRequest =>
               /\ e.kind = "ClusterRole" <=> e.broadened.Namespace = ""
               /\ e.kind = "Role" <=> e.broadened.Namespace # ""
               /\ e.kind = "Role" => e.namespace = e.broadened.Namespace
   /\ (pc = "requests" /\ appended # <<>>) =>
         LET e == appended[Len(appended)]
         IN IF e.kind = "ClusterRole"
            THEN LastRuleIs(generated.ClusterRoles[1].Rules, e.rule)
            ELSE \E role \in Range(generated.Roles) :
                    role.Namespace = e.namespace /\ LastRuleIs(role.Rules, e.rule)

\* rules were appended to the ClusterRole for a non-resource attempt and for
\* a resource attempt, and to a Role
C17_Witness ==
   /\ pc = "requests"
   /\ Len(appended) = 3
   /\ \E e \in Range(appended) : ~e.request.ResourceRequest
   /\ \E e \in Range(appended) : e.request.ResourceRequest /\ e.kind = "ClusterRole"
   /\ \E e \in Range(appended) : e.kind = "Role"
   /\ Len(generated.ClusterRoles[1].Rules) = 2

\* C18: an event with verb create and a reference to an object is converted
\* to a resource attempt without name that holds the group, version, resource
\* and namespace of the reference, so that creates that differ only in the
\* name of the reference are converted to equal attempts
C18_CreateWithoutName ==
   /\ \A k \in 1..Len(attributes) :
         (results[k].Verb = "create" /\ results[k].ObjectRef # <<>>) =>
            /\ attributes[k].Name = ""
            /\ attributes[k].ResourceRequest
            /\ attributes[k].APIGroup = results[k].ObjectRef[1].APIGroup
            /\ attributes[k].APIVersion = results[k].ObjectRef[1].APIVersion
            /\ attributes[k].Resource = results[k].ObjectRef[1].Resource
            /\ attributes[k].Namespace = results[k].ObjectRef[1].Namespace
   /\ \A k \in 1..Len(attributes), l \in 1..Len(attributes) :
         (/\ results[k].Verb = "create" /\ results[k].ObjectRef # <<>>
          /\ results[l].ObjectRef # <<>>
          /\ results[l] = [results[k] EXCEPT !.ObjectRef[1].Name = results[l].ObjectRef[1].Name])
         => attributes[k] = attributes[l]

\* the two rules are equal but for their names
DifferOnlyInNames(a, b) ==
   a # b /\ [a EXCEPT !.ResourceNames = <<>>] = [b EXCEPT !.ResourceNames = <<>>]

\* the two rules are equal but for their resources
DifferOnlyInResources(a, b) ==
   a # b /\ [a EXCEPT !.Resources = <<>>] = [b EXCEPT !.Resources = <<>>]

\* C19: whatever the order in which the grouped rules were visited, the rules
\* compactRules returned for a role hold no two resource rules that differ
\* only in their names and no two that differ only in their resources
C19_MergesCompletely ==
   \A j \in 1..Compacted :
      \A a \in Range(RolesOf(generated)[j].Rules), b \in Range(RolesOf(generated)[j].Rules) :
         (a.Resources # <<>> /\ b.Resources # <<>>) =>
            ~DifferOnlyInNames(a, b) /\ ~DifferOnlyInResources(a, b)

\* C20: when the rules handed to compactRules hold a rule without names and
\* a rule with names that agree on verbs, groups and resources, the rules
\* returned hold a rule without names that grants those verbs on those
\* resources
C20_AnyNameKept ==
   \A j \in 1..Compacted :
      \A u \in Range(RolesOf(raw)[j].Rules), n \in Range(RolesOf(raw)[j].Rules) :
         (/\ u.Resources # <<>> /\ u.ResourceNames = <<>> /\ n.ResourceNames # <<>>
          /\ DifferOnlyInNames(u, n)) =>
            \A verb \in Range(u.Verbs), group \in Range(u.APIGroups),
               resource \in Range(u.Resources) :
               \E rule \in Range(RolesOf(generated)[j].Rules) :
                  /\ rule.ResourceNames = <<>>
                  /\ verb \in Range(rule.Verbs)
                  /\ group \in Range(rule.APIGroups)
                  /\ resource \in Range(rule.Resources)

\* the rule of an entry of appended is among the rules the objects hold for
\* the role it was appended to
Holds(objects, e) ==
   IF e.kind = "ClusterRole"
   THEN \E role \in Range(objects.ClusterRoles) : e.rule \in Range(role.Rules)
   ELSE \E role \in Range(objects.Roles) :
           role.Namespace = e.namespace /\ e.rule \in Range(role.Rules)

\* what the generated authorizer reads is all that was generated so far
SnapshotFresh ==
   pc = "requests" =>
      /\ GetterObjects(generatedGetter, generated) = generated
      /\ \A k \in 1..Len(appended) :
            Holds(GetterObjects(generatedGetter, generated), appended[k])

\* C21: while the attempts are processed, the check against the generated
\* policy reads every role and binding made and every rule appended for the
\* attempts before the current one, the rules appended to a role made earlier
\* included, and the existing policy stays the one the generator was given
C21_SnapshotRefresh == [](SnapshotFresh) /\ [][existing' = existing]_vars

\* an attempt no existing rule allows stands next, and the last rule of a
\* generated role that holds two rules or more allows it
C21_Witness ==
   /\ pc = "requests" /\ i <= Len(requests)
   /\ Authorize(existing, requests[i]) # "DecisionAllow"
   /\ Authorize(GetterObjects(generatedGetter, generated), requests[i]) = "DecisionAllow"
   /\ \E role \in Range(RolesOf(generated)) :
         /\ Len(role.Rules) >= 2
         /\ RuleAllows(requests[i], role.Rules[Len(role.Rules)])
         /\ \A k \in 1..(Len(role.Rules) - 1) : ~RuleAllows(requests[i], role.Rules[k])

\* the rules of a policy that apply to the user in the namespace ("": in
\* every namespace)
RulesFor(policy, user, namespace) ==
   UNION {Range(GetRoleReferenceRules(policy, policy.ClusterRoleBindings[b].RoleRef, "")) :
             b \in {b \in 1..Len(policy.ClusterRoleBindings) :
                       appliesTo(user, policy.ClusterRoleBindings[b].Subjects, "")}}
   \cup
   UNION {Range(GetRoleReferenceRules(policy, policy.RoleBindings[b].RoleRef, namespace)) :
             b \in {b \in 1..Len(policy.RoleBindings) :
                       /\ namespace # ""
                       /\ policy.RoleBindings[b].Namespace = namespace
                       /\ appliesTo(user, policy.RoleBindings[b].Subjects, namespace)}}

\* the requests an appended rule was made to grant: each of its verbs on the
\* resource or URL of the request it was built from, under the name of that
\* request or, when it has none, with and without a name
Targets(e) ==
   {[e.broadened EXCEPT !.Verb = verb, !.Name = name] :
       verb \in Range(e.rule.Verbs),
       name \in IF e.broadened.ResourceRequest /\ e.broadened.Name = ""
                THEN {"", "p1", "p2"} ELSE {e.broadened.Name}}

\* the rule grants every target of the appended rule
Covers(rule, e) == \A target \in Targets(e) : RuleAllows(target, rule)

\* C22: when Generate appends a rule, neither the existing policy nor the
\* policy generated so far allows the attempt it is appended for, and no rule
\* that either policy held for the user on that target covers the new rule
C22_NoCoveredRule ==
   [][Len(appended') > Len(appended) =>
         LET e == appended'[Len(appended')]
         IN /\ e.request = requests[i]
            /\ ~Allowed(existing, e.request)
            /\ ~Allowed(GetterObjects(generatedGetter, generated), e.request)
            /\ \A rule \in RulesFor(existing, e.request.User, e.namespace)
                           \cup RulesFor(generated, e.request.User, e.namespace) :
                  ~Covers(rule, e)]_vars

\* a rule was appended to a role that held a rule with the same verbs on the
\* same resources for another name, while rules of the existing policy apply
\* to the user
C22_Witness ==
   /\ pc = "requests"
   /\ \E k \in 2..Len(appended) :
         /\ RulesFor(existing, appended[k].request.User, appended[k].namespace) # {}
         /\ \E j \in 1..(k - 1) :
               /\ appended[j].kind = appended[k].kind
               /\ appended[j].namespace = appended[k].namespace
               /\ appended[j].rule.Verbs = appended[k].rule.Verbs
               /\ appended[j].rule.Resources = appended[k].rule.Resources
               /\ appended[j].rule.Resources # <<>>
               /\ appended[j].rule.ResourceNames # appended[k].rule.ResourceNames

\* the list with x put in before its p-th member, or at its end
InsertAt(list, p, x) == SubSeq(list, 1, p - 1) \o <<x>> \o SubSeq(list, p, Len(list))

\* the lists made of the input by one more copy of one of its attempts
WithRepeat(list) ==
   {InsertAt(list, p, list[k]) : p \in 1..(Len(list) + 1), k \in 1..Len(list)}

\* C23: what Generate can return for a list is what it can return for the
\* list with one more copy of one of its attempts, wherever the copy is put
C23_Idempotent ==
   pc = "done" =>
      \A list \in WithRepeat(attempts) :
         /\ \A objects \in Generate(existing, list, Options) :
               \E same \in Generate(existing, attempts, Options) : same = objects
         /\ \A objects \in Generate(existing, attempts, Options) :
               \E same \in Generate(existing, list, Options) : same = objects

\* the list without its k-th member
Without(list, k) == SubSeq(list, 1, k - 1) \o SubSeq(list, k + 1, Len(list))

\* the objects without the k-th rule of the j-th role, the cluster roles
\* counted first
WithoutRule(objects, j, k) ==
   IF j <= Len(objects.ClusterRoles)
   THEN [objects EXCEPT !.ClusterRoles[j].Rules = Without(@, k)]
   ELSE [objects EXCEPT !.Roles[j - Len(objects.ClusterRoles)].Rules = Without(@, k)]

\* C24: when Generate has returned, every rule of the returned roles is
\* needed: some attempt of the input is allowed by the existing policy with
\* the returned objects and is not allowed once that rule is taken out
C24_Minimal ==
   pc = "done" =>
      \A j \in 1..Len(RolesOf(generated)) :
         \A k \in 1..Len(RolesOf(generated)[j].Rules) :
            \E a \in Range(attempts) :
               /\ Allowed(UnionObjects(existing, generated), a)
               /\ ~Allowed(UnionObjects(existing, WithoutRule(generated, j, k)), a)

\* C25: what Generate can return for a list is what it can return for every
\* list of the same attempts in another order: the same roles and bindings in
\* the same order, with the same rules in the same order
C25_OrderIndependent ==
   pc = "done" =>
      \A o \in Orderings(1..Len(attempts)) :
         /\ \A objects \in Generate(existing, Permuted(attempts, o), Options) :
               \E same \in Generate(existing, attempts, Options) : same = objects
         /\ \A objects \in Generate(existing, attempts, Options) :
               \E same \in Generate(existing, Permuted(attempts, o), Options) : same = objects

\* C26: a pass of the loop appends nothing when one of the two authorizers
\* returns DecisionAllow for its request; on any other answer, an error met
\* while the rules were resolved included, it appends one rule for the
\* request, after which the generated policy allows the request; either way
\* the loop goes on to the next request
C26_SkipOnlyOnAllow ==
   [][(pc = "requests" /\ i <= Len(requests)) =>
         /\ pc' = "requests" /\ i' = i + 1
         /\ IF \/ Authorize(existing, requests[i]) = "DecisionAllow"
               \/ Authorize(GetterObjects(generatedGetter, generated), requests[i])
                     = "DecisionAllow"
            THEN appended' = appended /\ generated' = generated
            ELSE /\ Len(appended') = Len(appended) + 1
                 /\ appended'[Len(appended')].request = requests[i]
                 /\ SubSeq(appended', 1, Len(appended)) = appended
                 /\ Allowed(GetterObjects(generatedGetter', generated'), requests[i])]_vars

\* a rule was appended for a request whose check met an error, a request
\* was skipped, and requests remain
C26_Witness ==
   /\ pc = "requests" /\ i <= Len(requests)
   /\ Len(appended) < i - 1
   /\ \E k \in 1..Len(appended) :
         /\ RuleResolutionErrors(existing, appended[k].request) # {}
         /\ ~Allowed(existing, appended[k].request)

\* C27: a role for which validation.CompactRules returned an error keeps the
\* rules it had before the compaction, the same rules in the same order, and
\* is returned with them; the roles and bindings returned are those made
C27_Fallback ==
   /\ \A j \in failed :
         /\ j <= Compacted
         /\ RolesOf(generated)[j] = RolesOf(raw)[j]
   /\ pc \in {"compact", "done"} =>
         /\ Len(generated.ClusterRoles) = Len(raw.ClusterRoles)
         /\ Len(generated.Roles) = Len(raw.Roles)
         /\ generated.ClusterRoleBindings = raw.ClusterRoleBindings
         /\ generated.RoleBindings = raw.RoleBindings

\* Generate has returned; the compaction of one role failed although every
\* compaction of its rules would have changed them, and that of another role
\* did not fail
C27_Witness ==
   /\ pc = "done"
   /\ \E j \in failed :
         \A order \in Orderings(simpleResources(breakdownRules(RolesOf(raw)[j].Rules))) :
            compactRules(RolesOf(raw)[j].Rules, order) # RolesOf(raw)[j].Rules
   /\ \E j \in 1..Len(RolesOf(generated)) : j \notin failed

\* the strings of the list are in ascending order and no two are equal
StrictlyAscending(strs) ==
   \A k \in 1..(Len(strs) - 1) : StringsCompare(strs[k], strs[k + 1]) < 0

\* the rule is a resource rule or a non-resource rule
WellShaped(rule) ==
   \/ /\ rule.APIGroups # <<>> /\ rule.Resources # <<>>
      /\ rule.NonResourceURLs = <<>>
   \/ /\ rule.NonResourceURLs # <<>>
      /\ rule.APIGroups = <<>> /\ rule.Resources = <<>> /\ rule.ResourceNames = <<>>

\* C28: when Generate has returned, every returned role holds a rule, and
\* every rule has verbs, in ascending order without repetition, and is either
\* a resource rule (groups and resources, no URLs) or a non-resource rule
\* (URLs, no groups, resources or names)
C28_RuleShape ==
   pc = "done" =>
      \A role \in Range(RolesOf(generated)) :
         /\ Len(role.Rules) >= 1
         /\ \A rule \in Range(role.Rules) :
               /\ rule.Verbs # <<>>
               /\ StrictlyAscending(rule.Verbs)
               /\ WellShaped(rule)

\* Generate has returned a non-resource rule and a rule of several verbs made
\* of two rules that both held the verb get for the same resources and names
C28_Witness ==
   /\ pc = "done"
   /\ \E role \in Range(generated.ClusterRoles) :
         \E rule \in Range(role.Rules) : rule.NonResourceURLs # <<>>
   /\ \E j \in 1..Len(RolesOf(generated)) :
         /\ \E a \in 1..Len(RolesOf(raw)[j].Rules), b \in 1..Len(RolesOf(raw)[j].Rules) :
               /\ a < b
               /\ RolesOf(raw)[j].Rules[a].Resources = RolesOf(raw)[j].Rules[b].Resources
               /\ RolesOf(raw)[j].Rules[a].Resources # <<>>
               /\ RolesOf(raw)[j].Rules[a].ResourceNames = RolesOf(raw)[j].Rules[b].ResourceNames
               /\ "get" \in Range(RolesOf(raw)[j].Rules[a].Verbs)
               /\ "get" \in Range(RolesOf(raw)[j].Rules[b].Verbs)
         /\ \E rule \in Range(RolesOf(generated)[j].Rules) : Len(rule.Verbs) >= 2

\* C29: the objects typecast has processed out of List wrappers are the items
\* flatten has sent, one for one and in the order of the sends
C29_FlattenDeliversItems ==
   /\ Len(pipe.typecasted) <= Len(pipe.flattened)
   /\ \A k \in 1..Len(pipe.typecasted) : pipe.typecasted[k] = pipe.flattened[k]

\* the loop of Run has ended, every goroutine has returned and every channel
\* is closed
PipelineEnded ==
   /\ pipe.run = "done"
   /\ \A r \in 1..Len(pipe.reader) : pipe.reader[r].pc = "done"
   /\ pipe.flatten.pc = "done" /\ pipe.typecast.pc = "done"
   /\ pipe.convertinternal.pc = "done" /\ pipe.filterEvents.pc = "done"
   /\ \A c \in DOMAIN pipe.closed : pipe.closed[c]

\* C30: whatever the sources hold, the readers return, every stage closes its
\* output once its input is closed, and the loop of Run ends
C30_PipelineTerminates == <>PipelineEnded

====
